---- MODULE Spec2Model ----
(***************************************************************************)
(* Swarm subsystem: tier policy (config.rs), agent registry (registry.rs), *)
(* coordination hub (hub.rs) and the swarm command of the exec front end   *)
(* (exec/src/lib.rs).                                                      *)
(*                                                                         *)
(* Conventions.  Option<T> is a sequence of length <= 1: None is <<>> and  *)
(* Some(x) is <<x>>.  A String that the code trims or compares ignoring    *)
(* case is a sequence of one-character strings.  A PathBuf is the sequence *)
(* of its components.  A thread id is a positive integer.                  *)
(***************************************************************************)
EXTENDS Integers, Sequences, FiniteSets, TLC

VARIABLES
    cfg,            \* SwarmConfig in force (config.swarm)
    probe,          \* inputs and result of a pure function under test
    registry,       \* SwarmRegistry.state: thread id -> SwarmAgentInfo
    reg_home,       \* SwarmRegistryStorage.codex_home
    reg_storage_dir,\* SwarmRegistryStorage.storage_dir
    hub,            \* SwarmHub.state: SwarmHubState
    hub_home,       \* SwarmHubStorage.codex_home
    fs,             \* the file system: path -> file content
    threads,        \* thread ids the ThreadManager has handed out
    watch,          \* the status the ThreadManager holds for each agent
    wait,           \* the wait command: its arguments, its position, its result
    lastCmd,        \* the last swarm command: inputs, calls made, outcome
    lastOp,         \* the last hub / registry operation and its inputs
    appended,       \* lounge entries appended since the lounge was last empty
    opCount,        \* operations performed so far
    lock,           \* who holds the write lock of the hub and of the registry
    inflight,       \* the calls in progress, one per task: position and locals
    thread_created_rx, \* the broadcast receiver of subscribe_thread_created
    attached_threads,  \* thread ids that have an event listener (run_main)
    listener        \* position of the thread-created listener task

vars == <<cfg, probe, registry, reg_home, reg_storage_dir, hub, hub_home, fs,
          threads, watch, wait, lastCmd, lastOp, appended, opCount, lock,
          inflight, thread_created_rx, attached_threads, listener>>

----------------------------------------------------------------------------
(* Option and small sequence helpers *)

None == <<>>
Some(x) == <<x>>
IsSome(o) == Len(o) > 0
Unwrap(o) == o[1]

Range(s) == {s[i] : i \in DOMAIN s}

----------------------------------------------------------------------------
(* Strings: str::trim, str::eq_ignore_ascii_case *)

UpperCase == <<"A","B","C","D","E","F","G","H","I","J","K","L","M",
               "N","O","P","Q","R","S","T","U","V","W","X","Y","Z">>
LowerCase == <<"a","b","c","d","e","f","g","h","i","j","k","l","m",
               "n","o","p","q","r","s","t","u","v","w","x","y","z">>
WhiteSpace == {" ", "\t", "\n", "\r"}

to_ascii_lowercase(c) ==
    IF \E i \in DOMAIN UpperCase : UpperCase[i] = c
    THEN LowerCase[CHOOSE i \in DOMAIN UpperCase : UpperCase[i] = c]
    ELSE c

eq_ignore_ascii_case(a, b) ==
    /\ Len(a) = Len(b)
    /\ \A i \in DOMAIN a : to_ascii_lowercase(a[i]) = to_ascii_lowercase(b[i])

RECURSIVE trim_start(_)
trim_start(s) ==
    IF s # <<>> /\ Head(s) \in WhiteSpace THEN trim_start(Tail(s)) ELSE s

RECURSIVE trim_end(_)
trim_end(s) ==
    IF s # <<>> /\ s[Len(s)] \in WhiteSpace
    THEN trim_end(SubSeq(s, 1, Len(s) - 1))
    ELSE s

trim(s) == trim_end(trim_start(s))

----------------------------------------------------------------------------
(* config.rs *)

Scout == <<"S","c","o","u","t">>
Scribe == <<"S","c","r","i","b","e">>
Scholar == <<"S","c","h","o","l","a","r">>

default_roles ==
    << [name |-> Scout, model |-> Some("gpt-5.1-codex-mini"),
        base_instructions |-> None, tier |-> 0],
       [name |-> Scribe, model |-> Some("gpt-5.1-codex-max"),
        base_instructions |-> None, tier |-> 1],
       [name |-> Scholar, model |-> Some("gpt-5.2-codex"),
        base_instructions |-> None, tier |-> 2] >>

SwarmHierarchy_default ==
    [allow_upward_calls |-> FALSE, allow_same_tier_calls |-> TRUE]

SwarmHubConfig_default == [leak_tracker_path |-> None, storage_dir |-> None]

SwarmConfig_default ==
    [enabled |-> FALSE,
     root_role |-> Some(Scholar),
     default_spawn_role |-> Some(Scribe),
     roles |-> default_roles,
     hierarchy |-> SwarmHierarchy_default,
     hub |-> SwarmHubConfig_default]

\* SwarmConfig::role: trim the query, reject the empty name, first role whose
\* name equals it ignoring ASCII case.
role(config, name) ==
    LET n == trim(name)
        hits == {i \in DOMAIN config.roles :
                    eq_ignore_ascii_case(config.roles[i].name, n)}
    IN  IF n = <<>> \/ hits = {} THEN None
        ELSE Some(config.roles[CHOOSE i \in hits : \A j \in hits : i <= j])

\* SwarmConfig::default_spawn_role_name
default_spawn_role_name(config) ==
    IF IsSome(config.default_spawn_role)
       /\ IsSome(role(config, Unwrap(config.default_spawn_role)))
    THEN config.default_spawn_role
    ELSE IF config.roles = <<>> THEN None ELSE Some(config.roles[1].name)

\* A slip of can_call: the comparison of the two tiers is reversed.
can_call_reversed(config, caller_tier, target_tier) ==
    IF caller_tier = target_tier THEN config.hierarchy.allow_same_tier_calls
    ELSE IF caller_tier < target_tier THEN TRUE
    ELSE config.hierarchy.allow_upward_calls

\* A slip of can_call: a call within one tier is always allowed.
can_call_same_tier_always(config, caller_tier, target_tier) ==
    IF caller_tier >= target_tier THEN TRUE
    ELSE config.hierarchy.allow_upward_calls

\* SwarmConfig::can_call
can_call(config, caller_tier, target_tier) ==
    IF caller_tier = target_tier THEN config.hierarchy.allow_same_tier_calls
    ELSE IF caller_tier > target_tier THEN TRUE
    ELSE config.hierarchy.allow_upward_calls

----------------------------------------------------------------------------
(* Bounds and input domains *)

\* i32 tiers the policy is probed with, the two ends of i32 included.
TierValues == {-2147483647 - 1, -1, 0, 1, 2, 2147483647}

\* The configurations: the defaults with every setting of the three switches.
Configs ==
    {[SwarmConfig_default EXCEPT
        !.enabled = e,
        !.hierarchy = [allow_upward_calls |-> u, allow_same_tier_calls |-> s]] :
     e \in BOOLEAN, u \in BOOLEAN, s \in BOOLEAN}

----------------------------------------------------------------------------
(* Paths and the file system *)

Home == <<"home">>
Dir1 == <<"d1">>

join(dir, name) == Append(dir, name)

Absent == [kind |-> "absent"]

\* tokio::fs::write: the file holds the payload when the write succeeds and
\* keeps its content when create_dir_all or the write fails.
fs_write(files, path, payload, write_ok) ==
    IF write_ok THEN [files EXCEPT ![path] = payload] ELSE files

----------------------------------------------------------------------------
(* registry.rs *)

EmptyMap == <<>>

\* HashMap::insert
map_insert(m, k, v) ==
    [x \in (DOMAIN m) \cup {k} |-> IF x = k THEN v ELSE m[x]]

\* HashMap::values().cloned().collect(): the records of the map, here in the
\* order of their keys (the order of a HashMap is unspecified).
RECURSIVE map_values(_)
map_values(m) ==
    IF DOMAIN m = {} THEN <<>>
    ELSE LET k == CHOOSE x \in DOMAIN m : \A y \in DOMAIN m : x <= y
         IN  <<m[k]>> \o map_values([x \in (DOMAIN m) \ {k} |-> m[x]])

\* SwarmRegistry::registry_state_path
registry_state_path(storage_dir, codex_home) ==
    LET base == IF IsSome(storage_dir) THEN storage_dir
                ELSE IF IsSome(codex_home)
                     THEN Some(join(Unwrap(codex_home), "swarm"))
                     ELSE None
    IN  IF IsSome(base) THEN Some(join(Unwrap(base), "swarm_registry.json"))
        ELSE None

\* serde_json::to_string_pretty(&SwarmRegistrySnapshot)
registry_to_json(agents) == [kind |-> "registry", agents |-> agents]

\* SwarmRegistry::persist_state: the files afterwards.
registry_persist_state(files, storage_dir, codex_home, agents, write_ok) ==
    LET path == registry_state_path(storage_dir, codex_home)
    IN  IF IsSome(path)
        THEN fs_write(files, Unwrap(path), registry_to_json(agents), write_ok)
        ELSE files

\* A slip of insert: the record is filed under its parent's id when it has one.
registry_insert_by_parent(m, info) ==
    IF IsSome(info.parent_thread_id)
    THEN map_insert(m, Unwrap(info.parent_thread_id), info)
    ELSE map_insert(m, info.thread_id, info)

\* SwarmRegistry::insert, the map afterwards: guard.insert(info.thread_id, info)
registry_insert(m, info) == map_insert(m, info.thread_id, info)

\* The record register_root builds.
root_info(thread_id, r, model) ==
    [thread_id |-> thread_id, role |-> r.name, model |-> model,
     tier |-> r.tier, parent_thread_id |-> None]

\* A slip of register_child: the two thread ids change places.
child_info_swapped(thread_id, parent_thread_id, r, model) ==
    [thread_id |-> parent_thread_id, role |-> r.name, model |-> model,
     tier |-> r.tier, parent_thread_id |-> Some(thread_id)]

\* The record register_child builds.
child_info(thread_id, parent_thread_id, r, model) ==
    [thread_id |-> thread_id, role |-> r.name, model |-> model,
     tier |-> r.tier, parent_thread_id |-> Some(parent_thread_id)]

\* SwarmRegistry::get
registry_get(m, thread_id) ==
    IF thread_id \in DOMAIN m THEN Some(m[thread_id]) ELSE None

\* SwarmRegistry::snapshot
registry_snapshot(m) == map_values(m)

\* The map load_from_storage builds from the parsed agents: collect() keeps
\* the last record of each thread id.
RECURSIVE agents_to_map(_)
agents_to_map(agents) ==
    IF agents = <<>> THEN EmptyMap
    ELSE LET n == Len(agents)
         IN  map_insert(agents_to_map(SubSeq(agents, 1, n - 1)),
                        agents[n].thread_id, agents[n])

\* A slip of load_from_storage: the map is emptied before the file is parsed,
\* so a file that does not parse leaves an empty map.
registry_load_clear_first(m, files, storage_dir, codex_home, read_ok) ==
    LET path == registry_state_path(storage_dir, codex_home)
    IN  IF ~IsSome(path) THEN [ok |-> TRUE, state |-> m]
        ELSE LET file == files[Unwrap(path)]
             IN  IF file.kind = "absent" THEN [ok |-> TRUE, state |-> m]
                 ELSE IF ~read_ok THEN [ok |-> FALSE, state |-> m]
                 ELSE IF file.kind # "registry"
                      THEN [ok |-> FALSE, state |-> EmptyMap]
                 ELSE [ok |-> TRUE, state |-> agents_to_map(file.agents)]

\* SwarmRegistry::load_from_storage: [ok, state].  No path or no file is
\* success and leaves the map; a file that cannot be read (read_ok = FALSE)
\* or is no registry snapshot is an error and leaves the map; otherwise the
\* map is replaced.
registry_load(m, files, storage_dir, codex_home, read_ok) ==
    LET path == registry_state_path(storage_dir, codex_home)
    IN  IF ~IsSome(path) THEN [ok |-> TRUE, state |-> m]
        ELSE LET file == files[Unwrap(path)]
             IN  IF file.kind = "absent" THEN [ok |-> TRUE, state |-> m]
                 ELSE IF ~read_ok THEN [ok |-> FALSE, state |-> m]
                 ELSE IF file.kind # "registry" THEN [ok |-> FALSE, state |-> m]
                 ELSE [ok |-> TRUE, state |-> agents_to_map(file.agents)]

\* SwarmRegistry::apply_storage_dir
apply_storage_dir(current, storage_dir) ==
    IF IsSome(storage_dir) THEN storage_dir ELSE current

----------------------------------------------------------------------------
(* Initial values shared by the specifications *)

AllPaths ==
    { join(join(Home, "swarm"), "swarm_registry.json"),
      join(Dir1, "swarm_registry.json"),
      join(join(Home, "swarm"), "swarm_hub.json"),
      join(Dir1, "swarm_hub.json"),
      join(Dir1, "leak_tracker.json"),
      join(Home, "swarm_leak_tracker.json") }

EmptyFs == [p \in AllPaths |-> Absent]

\* A disk where the hub file and the registry file under codex_home hold
\* text that is no JSON.
Corrupt == [kind |-> "corrupt"]
CorruptFs ==
    [EmptyFs EXCEPT ![join(join(Home, "swarm"), "swarm_hub.json")] = Corrupt,
                    ![join(join(Home, "swarm"), "swarm_registry.json")] = Corrupt]

\* SwarmHubState::default
SwarmHubState_default ==
    [lounge |-> <<>>,
     votes |-> <<>>,
     timer |-> [label |-> None, duration_ms |-> None,
                started_at_unix_ms |-> None, running |-> FALSE],
     leak_tracker |-> [entries |-> <<>>],
     leak_tracker_path |-> None,
     storage_dir |-> None,
     tasks |-> <<>>,
     evidence |-> <<>>,
     decisions |-> <<>>,
     artifacts |-> <<>>]

\* Nobody holds a lock and no call is in progress.
\* No subscription to the thread-created broadcast.
NoReceiver == [queue |-> <<>>, lagged |-> 0, dropped |-> {}, closed |-> TRUE]

NoLock == [hub |-> 0, registry |-> 0]
NoCalls == <<>>

\* No wait command runs, and no agent is looked at.
NoWatch == <<>>
NoWait == [pc |-> "none"]

NoProbe == [fn |-> "none"]
NoCmd == [action |-> "none"]
NoOp == [name |-> "none"]

\* Everything at rest: the values a specification gives the parts it leaves
\* alone.
AtRest ==
    /\ cfg = SwarmConfig_default
    /\ probe = NoProbe
    /\ registry = EmptyMap
    /\ reg_home = Some(Home)
    /\ reg_storage_dir = None
    /\ hub = SwarmHubState_default
    /\ hub_home = Some(Home)
    /\ fs = EmptyFs
    /\ threads = {} /\ watch = NoWatch /\ wait = NoWait
    /\ lock = NoLock /\ inflight = NoCalls
    /\ thread_created_rx = NoReceiver /\ attached_threads = {}
    /\ listener = "none"
    /\ lastCmd = NoCmd
    /\ lastOp = NoOp
    /\ appended = <<>>
    /\ opCount = 0

----------------------------------------------------------------------------
(* exec/src/lib.rs: the timeout of wait *)

MIN_WAIT_TIMEOUT_MS == 10000
DEFAULT_WAIT_TIMEOUT_MS == 30000
MAX_WAIT_TIMEOUT_MS == 300000

\* i64::clamp
clamp(v, lo, hi) == IF v < lo THEN lo ELSE IF v > hi THEN hi ELSE v

\* A slip of resolve_wait_timeout: only the upper bound is applied.
resolve_wait_timeout_no_floor(timeout_ms) ==
    IF ~IsSome(timeout_ms) THEN [ok |-> TRUE, value |-> DEFAULT_WAIT_TIMEOUT_MS]
    ELSE IF Unwrap(timeout_ms) <= 0 THEN [ok |-> FALSE, value |-> 0]
    ELSE [ok |-> TRUE,
          value |-> clamp(Unwrap(timeout_ms), 1, MAX_WAIT_TIMEOUT_MS)]

\* resolve_wait_timeout: [ok, value]; ok = FALSE is "timeout_ms must be
\* positive".
resolve_wait_timeout(timeout_ms) ==
    IF ~IsSome(timeout_ms) THEN [ok |-> TRUE, value |-> DEFAULT_WAIT_TIMEOUT_MS]
    ELSE IF Unwrap(timeout_ms) <= 0 THEN [ok |-> FALSE, value |-> 0]
    ELSE [ok |-> TRUE,
          value |-> clamp(Unwrap(timeout_ms), MIN_WAIT_TIMEOUT_MS,
                          MAX_WAIT_TIMEOUT_MS)]

\* --timeout-ms: absent, or a value around each edge of the clamp.
TimeoutArgs ==
    {None} \cup {Some(v) : v \in {-2147483647 - 1, -1, 0, 1, 5000, 9999, 10000,
                               10001, 30000, 299999, 300000, 300001,
                               2147483647}}

----------------------------------------------------------------------------
(* The tier policy on its own: can_call applied to every pair of tiers, and
   resolve_wait_timeout applied to every timeout *)

PolicyInit ==
    /\ cfg \in Configs
    /\ probe \in {[fn |-> "can_call", caller |-> a, target |-> b,
                   done |-> FALSE, result |-> FALSE] :
                  a \in TierValues, b \in TierValues}
               \cup {[fn |-> "resolve_wait_timeout", timeout_ms |-> t,
                       done |-> FALSE, result |-> [ok |-> FALSE, value |-> 0]] :
                      t \in TimeoutArgs}
    /\ registry = EmptyMap /\ reg_home = Some(Home) /\ reg_storage_dir = None
    /\ hub = SwarmHubState_default /\ hub_home = Some(Home) /\ fs = EmptyFs
    /\ threads = {} /\ watch = NoWatch /\ wait = NoWait
    /\ lock = NoLock /\ inflight = NoCalls
    /\ lastCmd = NoCmd /\ lastOp = NoOp /\ appended = <<>>
    /\ thread_created_rx = NoReceiver /\ attached_threads = {}
    /\ listener = "none"
    /\ opCount = 0

CanCall ==
    /\ probe.fn = "can_call" /\ ~probe.done
    /\ probe' = [probe EXCEPT !.done = TRUE,
                              !.result = can_call(cfg, probe.caller, probe.target)]
    /\ UNCHANGED <<cfg, registry, reg_home, reg_storage_dir, hub, hub_home, fs,
                   threads, watch, wait, lastCmd, lastOp, appended, opCount,
                   lock, inflight,
                   thread_created_rx, attached_threads, listener>>

ResolveWaitTimeout ==
    /\ probe.fn = "resolve_wait_timeout" /\ ~probe.done
    /\ probe' = [probe EXCEPT !.done = TRUE,
                              !.result = resolve_wait_timeout(probe.timeout_ms)]
    /\ UNCHANGED <<cfg, registry, reg_home, reg_storage_dir, hub, hub_home, fs,
                   threads, watch, wait, lastCmd, lastOp, appended, opCount,
                   lock, inflight,
                   thread_created_rx, attached_threads, listener>>

PolicyNext ==
    \/ CanCall
    \/ ResolveWaitTimeout

SpecPolicy == PolicyInit /\ [][PolicyNext]_vars

\* C1: for every hierarchy configuration and every pair of tiers (a, b),
\* can_call(a, b) is allow_same_tier_calls when a = b, true when a > b, and
\* allow_upward_calls when a < b.
C1_CanCallTable ==
    probe.fn = "can_call" /\ probe.done =>
        /\ probe.caller = probe.target =>
              probe.result = cfg.hierarchy.allow_same_tier_calls
        /\ probe.caller > probe.target => probe.result = TRUE
        /\ probe.caller < probe.target =>
              probe.result = cfg.hierarchy.allow_upward_calls

\* An upward call refused while same-tier calls are allowed.
C1_Witness ==
    /\ probe.fn = "can_call" /\ probe.done
    /\ probe.caller < probe.target
    /\ cfg.hierarchy.allow_same_tier_calls
    /\ ~cfg.hierarchy.allow_upward_calls
    /\ probe.result = FALSE

\* C11: the effective wait timeout is 30000 when timeout_ms is absent, an
\* error when timeout_ms <= 0, and otherwise timeout_ms brought into
\* [10000, 300000]; every value returned lies within [10000, 300000].
C11_WaitTimeout ==
    probe.fn = "resolve_wait_timeout" /\ probe.done =>
        LET t == probe.timeout_ms
            r == probe.result
        IN  /\ ~IsSome(t) => r.ok /\ r.value = 30000
            /\ IsSome(t) /\ Unwrap(t) <= 0 => ~r.ok
            /\ IsSome(t) /\ Unwrap(t) > 0 =>
                  /\ r.ok
                  /\ Unwrap(t) < 10000 => r.value = 10000
                  /\ Unwrap(t) > 300000 => r.value = 300000
                  /\ Unwrap(t) >= 10000 /\ Unwrap(t) <= 300000 =>
                        r.value = Unwrap(t)
            /\ r.ok => r.value >= 10000 /\ r.value <= 300000

\* timeout_ms = 5000 was raised to 10000.
C11_Witness ==
    /\ probe.fn = "resolve_wait_timeout" /\ probe.done
    /\ probe.timeout_ms = Some(5000)
    /\ probe.result = [ok |-> TRUE, value |-> 10000]

----------------------------------------------------------------------------
(* The registry on its own: the public operations of SwarmRegistry *)

MaxRegThreads == 2
RegThreadIds == 1 .. MaxRegThreads

\* How many registry operations a run performs.
MaxRegOps == 3

\* The roles agents are registered with: the lowest and the highest tier.
RegRoles == {cfg.roles[1], cfg.roles[Len(cfg.roles)]}

RegStep ==
    /\ opCount < MaxRegOps
    /\ opCount' = opCount + 1

\* Directories apply_storage_dir is called with.
StorageDirs == {None, Some(Dir1)}

RegistryInit ==
    /\ cfg = SwarmConfig_default /\ probe = NoProbe
    /\ registry = EmptyMap
    /\ reg_home \in {None, Some(Home)}
    /\ reg_storage_dir = None
    /\ hub = SwarmHubState_default /\ hub_home = Some(Home) /\ fs = EmptyFs
    /\ threads = {} /\ watch = NoWatch /\ wait = NoWait
    /\ lock = NoLock /\ inflight = NoCalls
    /\ lastCmd = NoCmd /\ lastOp = NoOp /\ appended = <<>>
    /\ thread_created_rx = NoReceiver /\ attached_threads = {}
    /\ listener = "none"
    /\ opCount = 0

\* insert: the map is updated under the lock, the snapshot taken there is
\* written afterwards and the result of the write is dropped.
Insert(info, name, write_ok) ==
    /\ registry' = registry_insert(registry, info)
    /\ fs' = registry_persist_state(fs, reg_storage_dir, reg_home,
                                    map_values(registry'), write_ok)
    /\ lastOp' = [name |-> name, info |-> info]
    /\ UNCHANGED <<cfg, probe, reg_home, reg_storage_dir, hub, hub_home,
                   threads, watch, wait, lastCmd, appended, lock, inflight,
                   thread_created_rx, attached_threads, listener>>

RegisterRoot ==
    \E t \in RegThreadIds, r \in RegRoles, write_ok \in BOOLEAN :
        /\ RegStep
        /\ Insert(root_info(t, r, r.model), "register_root", write_ok)

RegisterChild ==
    \E t \in RegThreadIds, p \in RegThreadIds, r \in RegRoles,
       write_ok \in BOOLEAN :
        /\ RegStep
        /\ Insert(child_info(t, p, r, r.model), "register_child", write_ok)

RegApplyStorageDir ==
    \E d \in StorageDirs :
        /\ RegStep
        /\ reg_storage_dir' = apply_storage_dir(reg_storage_dir, d)
        /\ lastOp' = [name |-> "registry.apply_storage_dir"]
        /\ UNCHANGED <<cfg, probe, registry, reg_home, hub, hub_home, fs,
                       threads, watch, wait, lastCmd, appended,
                       lock, inflight,
                       thread_created_rx, attached_threads, listener>>

RegLoadFromStorage ==
    \E read_ok \in BOOLEAN :
        LET r == registry_load(registry, fs, reg_storage_dir, reg_home, read_ok)
        IN  /\ RegStep
            /\ registry' = r.state
            /\ lastOp' = [name |-> "registry.load_from_storage", ok |-> r.ok,
                          read_ok |-> read_ok]
            /\ UNCHANGED <<cfg, probe, reg_home, reg_storage_dir, hub,
                           hub_home, fs, threads, watch, wait, lastCmd,
                           appended, lock, inflight,
                           thread_created_rx, attached_threads, listener>>

RegPersistNow ==
    \E write_ok \in BOOLEAN :
        /\ RegStep
        /\ fs' = registry_persist_state(fs, reg_storage_dir, reg_home,
                                        map_values(registry), write_ok)
        /\ lastOp' = [name |-> "registry.persist_now"]
        /\ UNCHANGED <<cfg, probe, registry, reg_home, reg_storage_dir, hub,
                       hub_home, threads, watch, wait, lastCmd, appended,
                       lock, inflight,
                       thread_created_rx, attached_threads, listener>>

RegistryNext ==
    \/ RegisterRoot
    \/ RegisterChild
    \/ RegApplyStorageDir
    \/ RegLoadFromStorage
    \/ RegPersistNow

SpecRegistry == RegistryInit /\ [][RegistryNext]_vars

\* How many records of a snapshot carry thread id t.
CountThread(snap, t) == Cardinality({i \in DOMAIN snap : snap[i].thread_id = t})

\* C8: after register_root or register_child for thread id t, get(t) returns
\* exactly the inserted record (no parent for a root, the given parent for a
\* child) and snapshot() holds a record with thread id t exactly once; after
\* any sequence of registrations no two records of snapshot() share a thread id.
C8_RegisterThenGet ==
    /\ lastOp.name \in {"register_root", "register_child"} =>
          /\ registry_get(registry, lastOp.info.thread_id) = Some(lastOp.info)
          /\ CountThread(registry_snapshot(registry), lastOp.info.thread_id) = 1
          /\ lastOp.name = "register_root" =>
                lastOp.info.parent_thread_id = None
          /\ lastOp.name = "register_child" =>
                IsSome(lastOp.info.parent_thread_id)
    /\ \A t \in RegThreadIds :
          CountThread(registry_snapshot(registry), t) <= 1

\* A child registered over an earlier record of the same id, with two agents
\* in the registry.
C8_Witness ==
    /\ lastOp.name = "register_child"
    /\ lastOp.info.thread_id # Unwrap(lastOp.info.parent_thread_id)
    /\ Cardinality(DOMAIN registry) = 2
    /\ Unwrap(lastOp.info.parent_thread_id) \in DOMAIN registry
    /\ registry[Unwrap(lastOp.info.parent_thread_id)].parent_thread_id = None

----------------------------------------------------------------------------
(* exec/src/lib.rs: run_swarm_command *)

MaxThreads == 3
ThreadIds == 1 .. MaxThreads

\* The id the ThreadManager gives the next thread it creates.
next_thread_id(known) == Cardinality(known) + 1

\* Command-line inputs.
Sage == <<"S","a","g","e">>
RoleArgs == {None, Some(Scout), Some(<<" ","s","c","h","o","l","a","r"," ">>),
             Some(Sage)}
AgentTypeArgs == {None, Some("worker")}
MessageArgs == {<<" ">>, <<"g","o">>}
\* --id: 0 stands for a string parse_thread_id rejects.
IdArgs == {0} \cup ThreadIds
\* What subscribe_agent_status answers in close: an error or the status.  The
\* ThreadManager is not part of the sources and every command runs in a
\* process of its own, so each close may be given any of the answers.
CloseStatuses == {None, Some("Running"), Some("Completed"), Some("Shutdown")}

\* parse_thread_id
parse_thread_id(id) == IF id \in ThreadIds THEN Some(id) ELSE None

\* The head of run_swarm_command (lines 743-749): apply_storage_dir, then
\* load_from_storage, whose error is logged and dropped.  The registry file
\* of a command is readable when it exists.
process_storage_dir == apply_storage_dir(reg_storage_dir, cfg.hub.storage_dir)
loaded_registry ==
    registry_load(registry, fs, process_storage_dir, reg_home, TRUE).state

\* The role a spawn resolves (lines 798-805): the name asked for, else the
\* default spawn role when swarm is enabled.
spawn_role_name(config, swarm_role_arg) ==
    IF IsSome(swarm_role_arg) THEN swarm_role_arg
    ELSE IF config.enabled THEN default_spawn_role_name(config)
    ELSE None

spawn_role(config, swarm_role_arg) ==
    LET name == spawn_role_name(config, swarm_role_arg)
    IN  IF IsSome(name) THEN role(config, Unwrap(name)) ELSE None

\* A slip of the spawn gate: a sender missing from the registry is refused.
spawn_blocked_unregistered(config, reg, sender, swarm_role) ==
    /\ config.enabled
    /\ IsSome(swarm_role)
    /\ \/ ~IsSome(registry_get(reg, sender))
       \/ ~can_call(config, Unwrap(registry_get(reg, sender)).tier,
                    Unwrap(swarm_role).tier)

\* A slip of the spawn gate: the policy is never consulted.
spawn_blocked_never(config, reg, sender, swarm_role) == FALSE

\* The gate of spawn (lines 811-817).
spawn_blocked(config, reg, sender, swarm_role) ==
    /\ config.enabled
    /\ IsSome(swarm_role)
    /\ IsSome(registry_get(reg, sender))
    /\ ~can_call(config, Unwrap(registry_get(reg, sender)).tier,
                 Unwrap(swarm_role).tier)

\* A slip of the send gate: the policy is consulted only when swarm is off.
send_blocked_inverted(config, reg, sender, receiver) ==
    /\ ~config.enabled
    /\ IsSome(registry_get(reg, sender))
    /\ IsSome(registry_get(reg, receiver))
    /\ ~can_call(config, Unwrap(registry_get(reg, sender)).tier,
                 Unwrap(registry_get(reg, receiver)).tier)

\* The gate of send (lines 849-857).
send_blocked(config, reg, sender, receiver) ==
    /\ config.enabled
    /\ IsSome(registry_get(reg, sender))
    /\ IsSome(registry_get(reg, receiver))
    /\ ~can_call(config, Unwrap(registry_get(reg, sender)).tier,
                 Unwrap(registry_get(reg, receiver)).tier)

\* The gate of close (lines 932-940).
close_blocked(config, reg, sender, receiver) ==
    /\ config.enabled
    /\ IsSome(registry_get(reg, sender))
    /\ IsSome(registry_get(reg, receiver))
    /\ ~can_call(config, Unwrap(registry_get(reg, sender)).tier,
                 Unwrap(registry_get(reg, receiver)).tier)

\* build_spawn_config, the model of the child: the role's model when it has
\* one, else the configured or default model.
spawn_model(swarm_role) ==
    IF IsSome(swarm_role) /\ IsSome(Unwrap(swarm_role).model)
    THEN Unwrap(swarm_role).model
    ELSE Some("default-model")

OrchInit ==
    /\ cfg \in Configs
    /\ probe = NoProbe
    /\ registry = EmptyMap /\ reg_home = Some(Home) /\ reg_storage_dir = None
    /\ hub = SwarmHubState_default /\ hub_home = Some(Home) /\ fs = EmptyFs
    /\ threads = {} /\ watch = NoWatch /\ wait = NoWait
    /\ lock = NoLock /\ inflight = NoCalls
    /\ lastCmd = NoCmd /\ lastOp = NoOp /\ appended = <<>>
    /\ thread_created_rx = NoReceiver /\ attached_threads = {}
    /\ listener = "none"
    /\ opCount = 0

\* resolve_swarm_sender_thread: the sender is a thread resumed from a rollout
\* or a thread started for the command; either can fail.
SenderChoices ==
    {[ok |-> FALSE, id |-> 0, fresh |-> FALSE]}
    \cup {[ok |-> TRUE, id |-> t, fresh |-> FALSE] : t \in threads}
    \cup {[ok |-> TRUE, id |-> next_thread_id(threads), fresh |-> TRUE] :
          x \in {y \in {0} : next_thread_id(threads) \in ThreadIds}}

\* A command that ends before its arm: the sender could not be resolved.
SenderFailed(action) ==
    /\ registry' = loaded_registry
    /\ reg_storage_dir' = process_storage_dir
    /\ lastCmd' = [action |-> action, sender |-> None, calls |-> <<>>,
                   outcome |-> "sender_error"]
    /\ UNCHANGED <<fs, threads, watch, wait>>

\* One command runs per process: the process starts with an empty registry
\* (SwarmRegistry::new) and no command behind it.
OrchFrame ==
    /\ lastCmd = NoCmd
    /\ UNCHANGED <<cfg, probe, reg_home, hub, hub_home, lastOp, appended,
                   opCount, lock, inflight,
                   thread_created_rx, attached_threads, listener>>

\* A command whose arm changes nothing but the record of the command.
ArmOnly(known, record) ==
    /\ registry' = loaded_registry
    /\ reg_storage_dir' = process_storage_dir
    /\ threads' = known
    /\ lastCmd' = record
    /\ UNCHANGED <<watch, wait>>
    /\ UNCHANGED fs

\* SwarmAction::Spawn (lines 788-842).
SwarmSpawn ==
    \E s \in SenderChoices, agent_type \in AgentTypeArgs,
       swarm_role_arg \in RoleArgs, message \in MessageArgs :
        /\ OrchFrame
        /\ IF ~s.ok THEN SenderFailed("spawn")
           ELSE
           LET known == threads \cup {s.id}
               name == spawn_role_name(cfg, swarm_role_arg)
               swarm_role == spawn_role(cfg, swarm_role_arg)
               new_thread_id == next_thread_id(known)
               agent_model == spawn_model(swarm_role)
               rec(calls, outcome, new) ==
                   [action |-> "spawn", sender |-> Some(s.id),
                    agent_type |-> agent_type, swarm_role |-> swarm_role_arg,
                    message |-> message, new_thread |-> new,
                    calls |-> calls, outcome |-> outcome]
           IN  IF IsSome(agent_type) /\ IsSome(swarm_role_arg)
               THEN ArmOnly(known, rec(<<>>, "validation_error", None))
               ELSE IF trim(message) = <<>>
               THEN ArmOnly(known, rec(<<>>, "validation_error", None))
               ELSE IF IsSome(name) /\ ~IsSome(swarm_role)
               THEN ArmOnly(known, rec(<<>>, "validation_error", None))
               ELSE IF spawn_blocked(cfg, loaded_registry, s.id, swarm_role)
               THEN ArmOnly(known, rec(<<>>, "policy_error", None))
               ELSE \E preset_ok \in {ok \in BOOLEAN : ok \/ IsSome(agent_type)},
                       spawn_ok \in BOOLEAN :
               IF ~preset_ok
               THEN ArmOnly(known, rec(<<>>, "config_error", None))
               ELSE IF ~spawn_ok
               THEN ArmOnly(known, rec(<<"spawn_agent_from_thread">>,
                                       "manager_error", None))
               ELSE \E write_ok \in BOOLEAN :
                    /\ new_thread_id \in ThreadIds
                    /\ threads' = known \cup {new_thread_id}
                    /\ UNCHANGED <<watch, wait>>
                    /\ reg_storage_dir' = process_storage_dir
                    /\ IF cfg.enabled /\ IsSome(swarm_role)
                       THEN /\ registry' = registry_insert(loaded_registry,
                                   child_info(new_thread_id, s.id,
                                              Unwrap(swarm_role), agent_model))
                            /\ fs' = registry_persist_state(fs,
                                   process_storage_dir, reg_home,
                                   map_values(registry'), write_ok)
                            /\ lastCmd' = rec(<<"spawn_agent_from_thread",
                                               "register_child", "agent_status">>,
                                              "ok", Some(new_thread_id))
                       ELSE /\ registry' = loaded_registry
                            /\ fs' = fs
                            /\ lastCmd' = rec(<<"spawn_agent_from_thread",
                                               "agent_status">>,
                                              "ok", Some(new_thread_id))

\* A slip of send: the prompt is sent before the agent is interrupted.
send_calls_prompt_first(interrupt, interrupt_ok) ==
    <<"send_agent_prompt">>
        \o (IF interrupt THEN <<"interrupt_agent">> ELSE <<>>)

\* The calls send makes once the gate is passed (lines 858-864):
\* interrupt_agent(..)? when --interrupt is given, then send_agent_prompt.
send_calls(interrupt, interrupt_ok) ==
    IF interrupt /\ ~interrupt_ok THEN <<"interrupt_agent">>
    ELSE (IF interrupt THEN <<"interrupt_agent">> ELSE <<>>)
            \o <<"send_agent_prompt">>

\* SwarmAction::Send (lines 843-868).
SwarmSend ==
    \E s \in SenderChoices, id \in IdArgs, message \in MessageArgs,
       interrupt \in BOOLEAN :
        /\ OrchFrame
        /\ IF ~s.ok THEN SenderFailed("send")
           ELSE
           LET known == threads \cup {s.id}
               receiver == parse_thread_id(id)
               rec(calls, outcome) ==
                   [action |-> "send", sender |-> Some(s.id),
                    receiver |-> receiver, message |-> message,
                    interrupt |-> interrupt,
                    calls |-> calls, outcome |-> outcome]
           IN  IF ~IsSome(receiver)
               THEN ArmOnly(known, rec(<<>>, "validation_error"))
               ELSE IF trim(message) = <<>>
               THEN ArmOnly(known, rec(<<>>, "validation_error"))
               ELSE IF send_blocked(cfg, loaded_registry, s.id, Unwrap(receiver))
               THEN ArmOnly(known, rec(<<>>, "policy_error"))
               ELSE \E interrupt_ok \in {ok \in BOOLEAN : ok \/ interrupt},
                       send_ok \in BOOLEAN :
               ArmOnly(known,
                   rec(send_calls(interrupt, interrupt_ok),
                       IF interrupt_ok /\ send_ok THEN "ok"
                       ELSE "manager_error"))

\* A slip of close: the status is not looked at.
needs_shutdown_always(status) == TRUE

\* !matches!(status, AgentStatus::Shutdown)
needs_shutdown(status) == status # "Shutdown"

\* SwarmAction::Close (lines 929-958).
SwarmClose ==
    \E s \in SenderChoices, id \in IdArgs, status \in CloseStatuses :
        /\ OrchFrame
        /\ IF ~s.ok THEN SenderFailed("close")
           ELSE
           LET known == threads \cup {s.id}
               receiver == parse_thread_id(id)
               rec(calls, outcome) ==
                   [action |-> "close", sender |-> Some(s.id),
                    receiver |-> receiver, status |-> status,
                    calls |-> calls, outcome |-> outcome]
           IN  IF ~IsSome(receiver)
               THEN ArmOnly(known, rec(<<>>, "validation_error"))
               ELSE IF close_blocked(cfg, loaded_registry, s.id, Unwrap(receiver))
               THEN ArmOnly(known, rec(<<>>, "policy_error"))
               ELSE IF ~IsSome(status)
               THEN ArmOnly(known, rec(<<"subscribe_agent_status",
                                         "agent_status">>, "manager_error"))
               ELSE IF needs_shutdown(Unwrap(status))
               THEN \E shutdown_ok \in BOOLEAN :
                    ArmOnly(known,
                        rec(<<"subscribe_agent_status", "shutdown_agent">>,
                            IF shutdown_ok THEN "ok" ELSE "manager_error"))
               ELSE ArmOnly(known, rec(<<"subscribe_agent_status">>, "ok"))

\* The process ends after its command: what it held in memory is gone, the
\* files and the threads' rollouts stay.
SwarmExit ==
    /\ lastCmd # NoCmd
    /\ lastCmd' = NoCmd
    /\ registry' = EmptyMap
    /\ reg_storage_dir' = None
    /\ UNCHANGED <<cfg, probe, reg_home, hub, hub_home, fs, threads, watch,
                   wait, lastOp,
                   appended, opCount, lock, inflight,
                   thread_created_rx, attached_threads, listener>>

OrchNext ==
    \/ SwarmSpawn
    \/ SwarmSend
    \/ SwarmClose
    \/ SwarmExit

SpecOrch == OrchInit /\ [][OrchNext]_vars

----------------------------------------------------------------------------
(* Claims about the swarm command *)

CmdIs(actions) == lastCmd.action \in actions

\* The command was invalid: it ended at one of the checks before the gate.
CmdInvalid == lastCmd.outcome = "validation_error"

\* The sender of a command as the registry records it.
SenderOf(cmd, reg) == registry_get(reg, Unwrap(cmd.sender))

\* The tier of the target of a command, when the target is known: the
\* resolved role of a spawn, the registered receiver of a send or close.
TargetTier(cmd, reg) ==
    IF cmd.action = "spawn"
    THEN LET r == spawn_role(cfg, cmd.swarm_role)
         IN  IF IsSome(r) THEN Some(Unwrap(r).tier) ELSE None
    ELSE IF IsSome(cmd.receiver)
            /\ IsSome(registry_get(reg, Unwrap(cmd.receiver)))
         THEN Some(Unwrap(registry_get(reg, Unwrap(cmd.receiver))).tier)
         ELSE None

\* The hierarchy forbids the command.
Forbidden(cmd, reg) ==
    /\ cfg.enabled
    /\ IsSome(cmd.sender)
    /\ IsSome(SenderOf(cmd, reg))
    /\ IsSome(TargetTier(cmd, reg))
    /\ ~can_call(cfg, Unwrap(SenderOf(cmd, reg)).tier,
                 Unwrap(TargetTier(cmd, reg)))

CmdSender == SenderOf(lastCmd, registry)
CmdTargetTier == TargetTier(lastCmd, registry)
CmdForbidden == Forbidden(lastCmd, registry)

\* C2: a spawn, send or close that reaches the policy gate (its sender was
\* resolved and its arguments passed validation) is rejected by the hierarchy
\* policy if and only if swarm is enabled, the sender is in the registry, the
\* target is known and can_call(sender.tier, target.tier) is false; no command
\* is policy-blocked when swarm is disabled or the sender or the target is
\* absent from the registry.
C2_PolicyGate ==
    CmdIs({"spawn", "send", "close"}) =>
        /\ lastCmd.outcome = "policy_error" => CmdForbidden
        /\ CmdForbidden /\ ~CmdInvalid => lastCmd.outcome = "policy_error"

\* A close refused by the policy, and the registry holding both ends.
C2_Witness ==
    /\ CmdIs({"close"})
    /\ lastCmd.outcome = "policy_error"
    /\ Unwrap(CmdSender).tier < Unwrap(CmdTargetTier)

\* C3: a send the policy forbids (swarm enabled, sender and receiver
\* registered, can_call false) returns a policy error and delivers nothing:
\* neither interrupt_agent nor send_agent_prompt is called, with --interrupt
\* as without.
C3_BlockedSendDeliversNothing ==
    CmdIs({"send"}) =>
        /\ CmdForbidden =>
              /\ lastCmd.calls = <<>>
              /\ lastCmd.outcome \in {"policy_error", "validation_error"}
              /\ ~CmdInvalid => lastCmd.outcome = "policy_error"
        /\ lastCmd.outcome = "policy_error" =>
              /\ "interrupt_agent" \notin Range(lastCmd.calls)
              /\ "send_agent_prompt" \notin Range(lastCmd.calls)

\* A tier-0 sender, a tier-2 receiver, --interrupt given, the send refused.
C3_Witness ==
    /\ CmdIs({"send"})
    /\ lastCmd.outcome = "policy_error"
    /\ lastCmd.interrupt
    /\ Unwrap(CmdSender).tier = 0
    /\ Unwrap(CmdTargetTier) = 2
    /\ ~cfg.hierarchy.allow_upward_calls

\* C21: in send the policy check comes before every call to the
\* ThreadManager (a send the policy refuses, like one whose arguments are
\* invalid, has made no call); with --interrupt the first call is
\* interrupt_agent and send_agent_prompt follows it, and when interrupt_agent
\* fails it is the only call and the prompt is not sent; without --interrupt
\* interrupt_agent is never called.
C21_SendCallOrder ==
    (CmdIs({"send"}) /\ IsSome(lastCmd.sender)) =>
        /\ (CmdInvalid \/ CmdForbidden
            \/ lastCmd.outcome = "policy_error") => lastCmd.calls = <<>>
        /\ (~CmdInvalid /\ ~CmdForbidden) =>
             IF lastCmd.interrupt
             THEN \/ /\ lastCmd.calls = <<"interrupt_agent">>
                     /\ lastCmd.outcome = "manager_error"
                  \/ /\ lastCmd.calls =
                            <<"interrupt_agent", "send_agent_prompt">>
                     /\ lastCmd.outcome \in {"ok", "manager_error"}
             ELSE /\ lastCmd.calls = <<"send_agent_prompt">>
                  /\ lastCmd.outcome \in {"ok", "manager_error"}

\* A send with --interrupt that the policy was consulted for and let
\* through: interrupt_agent failed and nothing was sent.
C21_Witness ==
    /\ CmdIs({"send"})
    /\ IsSome(lastCmd.sender)
    /\ lastCmd.interrupt
    /\ cfg.enabled
    /\ IsSome(CmdSender) /\ IsSome(CmdTargetTier)
    /\ lastCmd.calls = <<"interrupt_agent">>
    /\ lastCmd.outcome = "manager_error"

\* The arguments of a spawn fail one of its validation checks.
SpawnArgsInvalid(cmd) ==
    \/ IsSome(cmd.agent_type) /\ IsSome(cmd.swarm_role)
    \/ trim(cmd.message) = <<>>
    \/ /\ IsSome(spawn_role_name(cfg, cmd.swarm_role))
       /\ ~IsSome(spawn_role(cfg, cmd.swarm_role))

\* C4: a spawn that fails with a policy error or a validation error (both
\* agent_type and swarm_role, unknown role, empty message) changes nothing:
\* spawn_agent_from_thread is not called and the registry, in memory and on
\* disk, is what it was when the command loaded it.
C4_FailedSpawnChangesNothing ==
    [][ lastCmd = NoCmd /\ lastCmd'.action = "spawn" /\ IsSome(lastCmd'.sender) =>
          LET failed == lastCmd'.outcome \in {"policy_error", "validation_error"}
              refused == \/ SpawnArgsInvalid(lastCmd')
                         \/ Forbidden(lastCmd', loaded_registry)
          IN  /\ refused => failed
              /\ failed =>
                    /\ "spawn_agent_from_thread" \notin Range(lastCmd'.calls)
                    /\ registry' = loaded_registry
                    /\ fs' = fs
                    /\ lastCmd'.new_thread = None ]_vars

\* A registered tier-0 sender refused a tier-2 role while upward calls are off.
C4_Witness ==
    /\ CmdIs({"spawn"})
    /\ lastCmd.outcome = "policy_error"
    /\ Unwrap(CmdSender).tier = 0
    /\ Unwrap(CmdTargetTier) = 2
    /\ ~cfg.hierarchy.allow_upward_calls
    /\ registry # EmptyMap

\* The place of a call in the calls of the last command, 0 when absent.
CallIndex(c) ==
    IF c \in Range(lastCmd.calls)
    THEN CHOOSE i \in DOMAIN lastCmd.calls : lastCmd.calls[i] = c
    ELSE 0

\* C5: after a successful spawn with swarm enabled and a resolved role r, from
\* sender s, the registry holds a record for the new thread id with role
\* r.name, tier r.tier and parent s; the record is inserted only after
\* spawn_agent_from_thread has succeeded.
C5_SpawnRegistersChild ==
    /\ DOMAIN registry \subseteq threads
    /\ CmdIs({"spawn"}) =>
          LET r == spawn_role(cfg, lastCmd.swarm_role)
          IN  /\ lastCmd.outcome = "ok" /\ cfg.enabled /\ IsSome(r) =>
                    LET got == registry_get(registry, Unwrap(lastCmd.new_thread))
                    IN  /\ IsSome(got)
                        /\ Unwrap(got).thread_id = Unwrap(lastCmd.new_thread)
                        /\ Unwrap(got).role = Unwrap(r).name
                        /\ Unwrap(got).tier = Unwrap(r).tier
                        /\ Unwrap(got).parent_thread_id = lastCmd.sender
                        /\ 0 < CallIndex("spawn_agent_from_thread")
                        /\ CallIndex("spawn_agent_from_thread")
                              < CallIndex("register_child")
              /\ lastCmd.outcome # "ok" =>
                    "register_child" \notin Range(lastCmd.calls)

\* A registered tier-2 sender spawned a Scribe: the child has tier 1.
C5_Witness ==
    /\ CmdIs({"spawn"})
    /\ lastCmd.outcome = "ok"
    /\ cfg.enabled
    /\ lastCmd.swarm_role = None
    /\ IsSome(CmdSender)
    /\ Unwrap(CmdSender).tier = 2
    /\ registry[Unwrap(lastCmd.new_thread)].tier = 1
    /\ registry[Unwrap(lastCmd.new_thread)].parent_thread_id = lastCmd.sender

\* The number of shutdown_agent calls the command made.
ShutdownCalls ==
    Cardinality({i \in DOMAIN lastCmd.calls :
                    lastCmd.calls[i] = "shutdown_agent"})

\* C20: a close calls shutdown_agent (once) if and only if the policy permits
\* the close and the status the ThreadManager reports for the agent is not
\* Shutdown; a close of an agent reported Shutdown succeeds with no
\* shutdown_agent call, so that closing an agent again once it is Shutdown
\* shuts nothing down; a close whose sender or id is not resolved calls
\* nothing.
C20_CloseShutsDownOnce ==
    CmdIs({"close"}) =>
        IF ~IsSome(lastCmd.sender) \/ ~IsSome(lastCmd.receiver)
        THEN lastCmd.calls = <<>> /\ lastCmd.outcome # "ok"
        ELSE /\ ShutdownCalls =
                  IF /\ ~CmdForbidden
                     /\ IsSome(lastCmd.status)
                     /\ Unwrap(lastCmd.status) # "Shutdown"
                  THEN 1 ELSE 0
             /\ (~CmdForbidden /\ lastCmd.status = Some("Shutdown")) =>
                  /\ lastCmd.outcome = "ok"
                  /\ lastCmd.calls = <<"subscribe_agent_status">>
             /\ CmdForbidden => lastCmd.calls = <<>>

\* A close the policy was consulted for and permitted, of an agent reported
\* Shutdown: it succeeded and asked for the status only.
C20_Witness ==
    /\ CmdIs({"close"})
    /\ IsSome(lastCmd.sender)
    /\ lastCmd.status = Some("Shutdown")
    /\ cfg.enabled
    /\ IsSome(CmdSender) /\ IsSome(CmdTargetTier)
    /\ lastCmd.outcome = "ok"
    /\ ShutdownCalls = 0

----------------------------------------------------------------------------
(* hub.rs: the pure part of each operation of SwarmHub *)

\* The lounge keeps at most this many entries (line 208).
LoungeCap == 500

\* serde: an Option<PathBuf> is written as null or as a string and read back
\* from either.
JsonOption(o) ==
    IF IsSome(o) THEN [json |-> "string", value |-> Unwrap(o)]
    ELSE [json |-> "null"]

FromJsonOption(j) == IF j.json = "null" THEN None ELSE Some(j.value)

\* A slip of the serialisation: the leak tracker, which has a file of its
\* own, is left out of the hub file.
hub_to_json_without_leaks(state) ==
    [kind |-> "hub",
     lounge |-> state.lounge,
     votes |-> state.votes,
     timer |-> state.timer,
     leak_tracker |-> [entries |-> <<>>],
     leak_tracker_path |-> JsonOption(state.leak_tracker_path),
     storage_dir |-> JsonOption(state.storage_dir),
     tasks |-> state.tasks,
     evidence |-> state.evidence,
     decisions |-> state.decisions,
     artifacts |-> state.artifacts]

\* serde_json::to_string_pretty(&SwarmHubState): every field, the VecDeque as
\* an array front to back.
hub_to_json(state) ==
    [kind |-> "hub",
     lounge |-> state.lounge,
     votes |-> state.votes,
     timer |-> state.timer,
     leak_tracker |-> [entries |-> state.leak_tracker.entries],
     leak_tracker_path |-> JsonOption(state.leak_tracker_path),
     storage_dir |-> JsonOption(state.storage_dir),
     tasks |-> state.tasks,
     evidence |-> state.evidence,
     decisions |-> state.decisions,
     artifacts |-> state.artifacts]

\* serde_json::from_str::<SwarmHubState>: every field is required, so any
\* other document is a parse error.
hub_from_json(file) ==
    IF file.kind = "hub"
    THEN [ok |-> TRUE,
          state |-> [lounge |-> file.lounge,
                     votes |-> file.votes,
                     timer |-> file.timer,
                     leak_tracker |-> [entries |-> file.leak_tracker.entries],
                     leak_tracker_path |-> FromJsonOption(file.leak_tracker_path),
                     storage_dir |-> FromJsonOption(file.storage_dir),
                     tasks |-> file.tasks,
                     evidence |-> file.evidence,
                     decisions |-> file.decisions,
                     artifacts |-> file.artifacts]]
    ELSE [ok |-> FALSE, state |-> SwarmHubState_default]

\* serde_json::to_string_pretty(&state.leak_tracker)
leak_to_json(tracker) == [kind |-> "leak", entries |-> tracker.entries]

\* serde_json::from_str::<SwarmLeakTracker>: the field entries is required.
leak_from_json(file) ==
    IF file.kind = "leak"
    THEN [ok |-> TRUE, tracker |-> [entries |-> file.entries]]
    ELSE [ok |-> FALSE, tracker |-> [entries |-> <<>>]]

\* SwarmHubStorage::hub_state_path
hub_state_path(state, codex_home) ==
    LET base == IF IsSome(state.storage_dir) THEN state.storage_dir
                ELSE IF IsSome(codex_home)
                     THEN Some(join(Unwrap(codex_home), "swarm"))
                     ELSE None
    IN  IF IsSome(base) THEN Some(join(Unwrap(base), "swarm_hub.json"))
        ELSE None

\* persist_leak_tracker, the file it writes: the tracker path, else
\* leak_tracker.json in the storage directory, else swarm_leak_tracker.json
\* in codex_home.
leak_tracker_file(state, codex_home) ==
    IF IsSome(state.leak_tracker_path) THEN state.leak_tracker_path
    ELSE IF IsSome(state.storage_dir)
         THEN Some(join(Unwrap(state.storage_dir), "leak_tracker.json"))
    ELSE IF IsSome(codex_home)
         THEN Some(join(Unwrap(codex_home), "swarm_leak_tracker.json"))
    ELSE None

\* SwarmHub::persist_state: [ok, files].  No path is success without a write.
persist_state(files, state, codex_home, write_ok) ==
    LET path == hub_state_path(state, codex_home)
    IN  IF ~IsSome(path) THEN [ok |-> TRUE, files |-> files]
        ELSE [ok |-> write_ok,
              files |-> fs_write(files, Unwrap(path), hub_to_json(state),
                                 write_ok)]

\* SwarmHub::persist_leak_tracker: [ok, files]
persist_leak_tracker(files, state, codex_home, write_ok) ==
    LET path == leak_tracker_file(state, codex_home)
    IN  IF ~IsSome(path) THEN [ok |-> TRUE, files |-> files]
        ELSE [ok |-> write_ok,
              files |-> fs_write(files, Unwrap(path),
                                 leak_to_json(state.leak_tracker), write_ok)]

\* A slip of the two writes: their results are dropped.
persist_both_dropped(files, state, codex_home, state_ok, leak_ok) ==
    LET first == persist_state(files, state, codex_home, state_ok)
        second == persist_leak_tracker(first.files, state, codex_home, leak_ok)
    IN  IF ~first.ok THEN [ok |-> TRUE, files |-> first.files]
        ELSE [ok |-> TRUE, files |-> second.files]

\* persist_state(..)? followed by persist_leak_tracker(..): the tracker file
\* is written only after the hub file was.
persist_both(files, state, codex_home, state_ok, leak_ok) ==
    LET first == persist_state(files, state, codex_home, state_ok)
    IN  IF ~first.ok THEN first
        ELSE persist_leak_tracker(first.files, state, codex_home, leak_ok)

\* A slip of apply_config: the tracker path is derived from the directory the
\* state held before the configured one was adopted.
apply_config_stale_dir(state, config) ==
    LET dir == IF IsSome(config.storage_dir) THEN config.storage_dir
               ELSE state.storage_dir
        leak == IF IsSome(config.leak_tracker_path) THEN config.leak_tracker_path
                ELSE IF ~IsSome(state.leak_tracker_path)
                        /\ IsSome(state.storage_dir)
                     THEN Some(join(Unwrap(state.storage_dir),
                                    "leak_tracker.json"))
                     ELSE state.leak_tracker_path
    IN  [state EXCEPT !.storage_dir = dir, !.leak_tracker_path = leak]

\* SwarmHub::apply_config
apply_config(state, config) ==
    LET dir == IF IsSome(config.storage_dir) THEN config.storage_dir
               ELSE state.storage_dir
        leak == IF IsSome(config.leak_tracker_path) THEN config.leak_tracker_path
                ELSE IF ~IsSome(state.leak_tracker_path)
                        /\ IsSome(config.storage_dir)
                     THEN Some(join(Unwrap(config.storage_dir),
                                    "leak_tracker.json"))
                     ELSE state.leak_tracker_path
    IN  [state EXCEPT !.storage_dir = dir, !.leak_tracker_path = leak]

\* SwarmHub::load_from_storage: [ok, state].  read_ok = FALSE is a read of
\* an existing file that fails (an error other than NotFound).
load_from_storage(state, files, codex_home, read_ok) ==
    LET path == hub_state_path(state, codex_home)
    IN  IF ~IsSome(path) THEN [ok |-> TRUE, state |-> state]
        ELSE IF files[Unwrap(path)].kind = "absent"
             THEN [ok |-> TRUE, state |-> state]
        ELSE IF ~read_ok THEN [ok |-> FALSE, state |-> state]
        ELSE LET parsed == hub_from_json(files[Unwrap(path)])
                 loaded == parsed.state
                 leak == IF IsSome(state.leak_tracker_path)
                         THEN state.leak_tracker_path
                         ELSE loaded.leak_tracker_path
                 dir == IF IsSome(state.storage_dir) THEN state.storage_dir
                        ELSE loaded.storage_dir
             IN  IF ~parsed.ok THEN [ok |-> FALSE, state |-> state]
                 ELSE [ok |-> TRUE,
                       state |-> [loaded EXCEPT !.leak_tracker_path = leak,
                                                !.storage_dir = dir]]

\* A slip of lounge_append: the newest entry is dropped when the lounge is
\* full.
lounge_append_pop_back(state, entry) ==
    LET pushed == Append(state.lounge, entry)
    IN  [state EXCEPT !.lounge = IF Len(pushed) > LoungeCap
                                 THEN SubSeq(pushed, 1, Len(pushed) - 1)
                                 ELSE pushed]

\* SwarmHub::lounge_append, the state afterwards: push_back, then one
\* pop_front when the length exceeds the cap.
lounge_append(state, entry) ==
    LET pushed == Append(state.lounge, entry)
    IN  [state EXCEPT !.lounge = IF Len(pushed) > LoungeCap
                                 THEN Tail(pushed)
                                 ELSE pushed]

\* SwarmHub::lounge_clear
lounge_clear(state) == [state EXCEPT !.lounge = <<>>]

\* A slip of upsert_vote: the vote is always pushed.
upsert_vote_push(state, vote) ==
    [state EXCEPT !.votes = Append(state.votes, vote)]

\* SwarmHub::upsert_vote: the first vote with the id is replaced in place,
\* else the vote is pushed.
upsert_vote(state, vote) ==
    IF \E i \in DOMAIN state.votes : state.votes[i].id = vote.id
    THEN LET i == CHOOSE k \in DOMAIN state.votes :
                      /\ state.votes[k].id = vote.id
                      /\ \A j \in 1 .. (k - 1) : state.votes[j].id # vote.id
         IN  [state EXCEPT !.votes[i] = vote]
    ELSE [state EXCEPT !.votes = Append(state.votes, vote)]

\* SwarmHub::set_timer
set_timer(state, timer) == [state EXCEPT !.timer = timer]

\* SwarmHub::leak_tracker_set_path, the state afterwards: the path is set and,
\* when asked, the tracker is replaced by the file at the path if that file
\* can be read and parsed.
leak_tracker_set_path(state, files, path, load_existing, read_ok) ==
    LET parsed == leak_from_json(files[path])
    IN  [state EXCEPT
            !.leak_tracker_path = Some(path),
            !.leak_tracker = IF load_existing /\ read_ok /\ parsed.ok
                             THEN parsed.tracker
                             ELSE state.leak_tracker]

\* SwarmHub::leak_tracker_add
leak_tracker_add(state, entry) ==
    [state EXCEPT !.leak_tracker.entries = Append(@, entry)]

\* SwarmHub::leak_tracker_clear
leak_tracker_clear(state) == [state EXCEPT !.leak_tracker.entries = <<>>]

\* A slip of the mutations: the state from before the call is restored when
\* the write fails.
after_write_rolled_back(old, new, write_ok) == IF write_ok THEN new ELSE old

\* What the hub holds when the write that follows a mutation has returned:
\* the mutation was made under the lock before the write began, and nothing
\* restores the old state, whatever the write did.
after_write(old, new, write_ok) == new

\* A slip of task_add: the entry is put in front of the list.
task_add_in_front(state, entry) == [state EXCEPT !.tasks = <<entry>> \o @]

\* SwarmHub::task_add
task_add(state, entry) == [state EXCEPT !.tasks = Append(@, entry)]

\* SwarmHub::evidence_add
evidence_add(state, entry) == [state EXCEPT !.evidence = Append(@, entry)]

\* SwarmHub::decision_add
decision_add(state, entry) == [state EXCEPT !.decisions = Append(@, entry)]

\* SwarmHub::artifact_add
artifact_add(state, entry) == [state EXCEPT !.artifacts = Append(@, entry)]

----------------------------------------------------------------------------
(* The hub on its own: the public operations of SwarmHub *)

\* How many hub operations a run performs.
MaxHubOps == 3

\* Configurations apply_config is called with.
HubConfigs ==
    {[leak_tracker_path |-> l, storage_dir |-> d] :
        l \in {None, Some(join(Home, "swarm_leak_tracker.json"))},
        d \in {None, Some(Dir1)}}

\* Paths leak_tracker_set_path is called with: a file of its own and the
\* file the hub state is written to when no storage directory is set.
LeakPaths ==
    {join(Dir1, "leak_tracker.json"), join(join(Home, "swarm"), "swarm_hub.json")}

VoteIds == {"v1", "v2"}

\* The votes upsert_vote is called with; now is the time of the call.
VoteArgs(now) ==
    {[id |-> i, topic |-> t, options |-> <<"yes", "no">>,
      created_at_unix_ms |-> now, votes |-> <<>>] :
        i \in VoteIds, t \in {"t1", "t2"}}

\* The timers set_timer is called with: one started now, one stopped.
TimerArgs(now) ==
    {[label |-> Some("review"), duration_ms |-> Some(50),
      started_at_unix_ms |-> Some(now), running |-> TRUE],
     [label |-> None, duration_ms |-> None,
      started_at_unix_ms |-> None, running |-> FALSE]}

\* Entries; text k stands for the message "m<k>".
LoungeEntry(k, now) ==
    [text |-> k, author_thread_id |-> None, created_at_unix_ms |-> now]

LeakEntry(now) ==
    [id |-> "leak", label |-> "key", value |-> "secret", context |-> None,
     severity |-> None, created_at_unix_ms |-> now, source_thread_id |-> None]

TaskEntry(now) ==
    [id |-> "task", title |-> "scan", status |-> "open",
     owner_thread_id |-> None, notes |-> None, created_at_unix_ms |-> now]

EvidenceEntry(now) ==
    [id |-> "evidence", summary |-> "log", severity |-> None, source |-> None,
     created_at_unix_ms |-> now]

DecisionEntry(now) ==
    [id |-> "decision", summary |-> "ship", rationale |-> None,
     created_at_unix_ms |-> now]

ArtifactEntry(now) ==
    [id |-> "artifact", label |-> "report", path |-> None,
     created_at_unix_ms |-> now]

HubInit ==
    /\ cfg = SwarmConfig_default /\ probe = NoProbe
    /\ registry = EmptyMap /\ reg_home = Some(Home) /\ reg_storage_dir = None
    /\ hub = SwarmHubState_default
    /\ hub_home \in {None, Some(Home)}
    /\ fs = EmptyFs
    /\ threads = {} /\ watch = NoWatch /\ wait = NoWait
    /\ lock = NoLock /\ inflight = NoCalls
    /\ lastCmd = NoCmd /\ lastOp = NoOp /\ appended = <<>>
    /\ thread_created_rx = NoReceiver /\ attached_threads = {}
    /\ listener = "none"
    /\ opCount = 0

HubFrame ==
    UNCHANGED <<cfg, probe, registry, reg_home, reg_storage_dir, hub_home,
                threads, watch, wait, lastCmd, appended, lock, inflight,
                thread_created_rx, attached_threads, listener>>

HubStep ==
    /\ opCount < MaxHubOps
    /\ opCount' = opCount + 1

\* The clock read by the caller of an operation (now_unix_ms).
now == opCount + 1

\* An operation that changes the state under the lock, then writes the
\* snapshot taken there and drops the result (let _ = persist_state).
Mutate(state, write_ok, op) ==
    /\ hub' = after_write(hub, state, write_ok)
    /\ fs' = persist_state(fs, state, hub_home, write_ok).files
    /\ lastOp' = op
    /\ HubFrame

\* An operation that changes the state, then writes the hub file and the
\* tracker file and returns the result.
MutateAndReport(state, state_ok, leak_ok, name) ==
    LET done == persist_both(fs, state, hub_home, state_ok, leak_ok)
    IN  /\ hub' = after_write(hub, state, done.ok)
        /\ fs' = done.files
        /\ lastOp' = [name |-> name, ok |-> done.ok,
                      state_ok |-> state_ok, leak_ok |-> leak_ok]
        /\ HubFrame

HubApplyConfig ==
    \E c \in HubConfigs :
        /\ HubStep
        /\ hub' = apply_config(hub, c)
        /\ lastOp' = [name |-> "apply_config", config |-> c,
                      repeat |-> (lastOp.name = "apply_config"
                                    /\ lastOp.config = c)]
        /\ UNCHANGED fs
        /\ HubFrame

HubLoadFromStorage ==
    \E read_ok \in BOOLEAN :
        LET r == load_from_storage(hub, fs, hub_home, read_ok)
        IN  /\ HubStep
            /\ hub' = r.state
            /\ lastOp' = [name |-> "load_from_storage", ok |-> r.ok,
                          read_ok |-> read_ok,
                          after_persist |-> (lastOp.name = "persist_now"
                                               /\ lastOp.ok)]
            /\ UNCHANGED fs
            /\ HubFrame

HubPersistNow ==
    \E state_ok \in BOOLEAN, leak_ok \in BOOLEAN :
        /\ HubStep
        /\ MutateAndReport(hub, state_ok, leak_ok, "persist_now")

HubLoungeAppend ==
    \E write_ok \in BOOLEAN :
        /\ HubStep
        /\ Mutate(lounge_append(hub, LoungeEntry(now, now)), write_ok,
                  [name |-> "lounge_append"])

HubLoungeClear ==
    \E write_ok \in BOOLEAN :
        /\ HubStep
        /\ Mutate(lounge_clear(hub), write_ok, [name |-> "lounge_clear"])

HubUpsertVote ==
    \E vote \in VoteArgs(now), write_ok \in BOOLEAN :
        /\ HubStep
        /\ Mutate(upsert_vote(hub, vote), write_ok,
                  [name |-> "upsert_vote", vote |-> vote])

HubSetTimer ==
    \E timer \in TimerArgs(now), write_ok \in BOOLEAN :
        /\ HubStep
        /\ Mutate(set_timer(hub, timer), write_ok, [name |-> "set_timer"])

HubLeakTrackerSetPath ==
    \E path \in LeakPaths, load_existing \in BOOLEAN, write_ok \in BOOLEAN :
        \E read_ok \in IF load_existing THEN BOOLEAN ELSE {TRUE} :
            /\ HubStep
            /\ Mutate(leak_tracker_set_path(hub, fs, path, load_existing,
                                            read_ok),
                      write_ok, [name |-> "leak_tracker_set_path"])

HubLeakTrackerAdd ==
    \E state_ok \in BOOLEAN, leak_ok \in BOOLEAN :
        /\ HubStep
        /\ MutateAndReport(leak_tracker_add(hub, LeakEntry(now)),
                           state_ok, leak_ok, "leak_tracker_add")

HubLeakTrackerClear ==
    \E state_ok \in BOOLEAN, leak_ok \in BOOLEAN :
        /\ HubStep
        /\ MutateAndReport(leak_tracker_clear(hub), state_ok, leak_ok,
                           "leak_tracker_clear")

HubTaskAdd ==
    \E write_ok \in BOOLEAN :
        /\ HubStep
        /\ Mutate(task_add(hub, TaskEntry(now)), write_ok,
                  [name |-> "task_add"])

HubEvidenceAdd ==
    \E write_ok \in BOOLEAN :
        /\ HubStep
        /\ Mutate(evidence_add(hub, EvidenceEntry(now)), write_ok,
                  [name |-> "evidence_add"])

HubDecisionAdd ==
    \E write_ok \in BOOLEAN :
        /\ HubStep
        /\ Mutate(decision_add(hub, DecisionEntry(now)), write_ok,
                  [name |-> "decision_add"])

HubArtifactAdd ==
    \E write_ok \in BOOLEAN :
        /\ HubStep
        /\ Mutate(artifact_add(hub, ArtifactEntry(now)), write_ok,
                  [name |-> "artifact_add"])

HubNext ==
    \/ HubApplyConfig
    \/ HubLoadFromStorage
    \/ HubPersistNow
    \/ HubLoungeAppend
    \/ HubLoungeClear
    \/ HubUpsertVote
    \/ HubSetTimer
    \/ HubLeakTrackerSetPath
    \/ HubLeakTrackerAdd
    \/ HubLeakTrackerClear
    \/ HubTaskAdd
    \/ HubEvidenceAdd
    \/ HubDecisionAdd
    \/ HubArtifactAdd

SpecHub == HubInit /\ [][HubNext]_vars

----------------------------------------------------------------------------
(* The hub and the registry of one process, which share codex_home and the *)
(* disk; the disk may hold files that are no JSON when the process starts. *)
(* The operations are those that choose the storage paths, load the files, *)
(* and one of each component that changes its state and writes its file.   *)

StorageInit ==
    /\ cfg = SwarmConfig_default /\ probe = NoProbe
    /\ registry = EmptyMap /\ reg_home = Some(Home) /\ reg_storage_dir = None
    /\ hub = SwarmHubState_default /\ hub_home = Some(Home)
    /\ fs \in {EmptyFs, CorruptFs}
    /\ threads = {} /\ watch = NoWatch /\ wait = NoWait
    /\ lock = NoLock /\ inflight = NoCalls
    /\ lastCmd = NoCmd /\ lastOp = NoOp /\ appended = <<>>
    /\ thread_created_rx = NoReceiver /\ attached_threads = {}
    /\ listener = "none"
    /\ opCount = 0

StorageNext ==
    \/ HubApplyConfig
    \/ HubLoadFromStorage
    \/ HubPersistNow
    \/ HubLeakTrackerAdd
    \/ RegApplyStorageDir
    \/ RegLoadFromStorage
    \/ RegisterRoot

SpecStorage == StorageInit /\ [][StorageNext]_vars

\* C17: load_from_storage of the hub and of the registry replaces the state
\* in memory only when the file was read and parsed: a missing file (or no
\* storage path) is success and leaves the state; a file that cannot be read
\* or is not a valid document is an error and leaves the state; no load
\* writes a file.
C17_LoadReplacesOnlyOnSuccess ==
    [][ /\ lastOp'.name = "load_from_storage" =>
            LET path == hub_state_path(hub, hub_home)
                missing == ~IsSome(path) \/ fs[Unwrap(path)].kind = "absent"
            IN  /\ missing => lastOp'.ok /\ hub' = hub
                /\ ~missing /\ ~lastOp'.read_ok => ~lastOp'.ok
                /\ ~missing /\ fs[Unwrap(path)].kind # "hub" => ~lastOp'.ok
                /\ ~lastOp'.ok => hub' = hub
                /\ hub' # hub => /\ lastOp'.ok /\ lastOp'.read_ok
                                 /\ fs[Unwrap(path)].kind = "hub"
                /\ fs' = fs
        /\ lastOp'.name = "registry.load_from_storage" =>
            LET path == registry_state_path(reg_storage_dir, reg_home)
                missing == ~IsSome(path) \/ fs[Unwrap(path)].kind = "absent"
            IN  /\ missing => lastOp'.ok /\ registry' = registry
                /\ ~missing /\ ~lastOp'.read_ok => ~lastOp'.ok
                /\ ~missing /\ fs[Unwrap(path)].kind # "registry" => ~lastOp'.ok
                /\ ~lastOp'.ok => registry' = registry
                /\ registry' # registry =>
                      /\ lastOp'.ok /\ lastOp'.read_ok
                      /\ fs[Unwrap(path)].kind = "registry"
                /\ fs' = fs ]_vars

\* A registry holding an agent whose write had failed read the corrupt file:
\* the load failed and the agent is still registered.
C17_Witness ==
    /\ lastOp.name = "registry.load_from_storage"
    /\ ~lastOp.ok /\ lastOp.read_ok
    /\ registry # EmptyMap
    /\ fs[Unwrap(registry_state_path(reg_storage_dir, reg_home))] = Corrupt

\* C7: after upsert_vote(v) the hub holds exactly one vote with the id of v
\* and that vote is v; vote ids are pairwise distinct in every state reached
\* from the empty hub; a vote whose id is already present is replaced where
\* it stands, every other vote untouched, and a vote with a new id is
\* appended at the end.
C7_UpsertVote ==
    /\ [](\A i, j \in DOMAIN hub.votes :
              hub.votes[i].id = hub.votes[j].id => i = j)
    /\ [][lastOp'.name = "upsert_vote" =>
            LET v == lastOp'.vote
                old == hub.votes
                new == hub'.votes
                held == {i \in DOMAIN old : old[i].id = v.id}
            IN  /\ Cardinality({i \in DOMAIN new : new[i].id = v.id}) = 1
                /\ \E i \in DOMAIN new : new[i] = v
                /\ held # {} =>
                      /\ Len(new) = Len(old)
                      /\ \A i \in DOMAIN old :
                            new[i] = IF i \in held THEN v ELSE old[i]
                /\ held = {} => new = Append(old, v)]_vars

\* The first of two votes was replaced by the third call and kept its place.
C7_Witness ==
    /\ lastOp.name = "upsert_vote"
    /\ Len(hub.votes) = 2
    /\ hub.votes[1] = lastOp.vote
    /\ hub.votes[1].created_at_unix_ms > hub.votes[2].created_at_unix_ms

\* C9: load_from_storage called right after a persist_now that returned Ok
\* leaves the in-memory state equal to the state that was persisted.
C9_PersistThenLoad ==
    [][lastOp.name = "persist_now" /\ lastOp.ok
        /\ lastOp'.name = "load_from_storage" => hub' = hub]_vars

\* A hub with a leak entry was persisted and read back from its file.
C9_Witness ==
    /\ lastOp.name = "load_from_storage"
    /\ lastOp.after_persist
    /\ lastOp.ok
    /\ hub.leak_tracker.entries # <<>>
    /\ IsSome(hub_state_path(hub, hub_home))
    /\ fs[Unwrap(hub_state_path(hub, hub_home))] = hub_to_json(hub)

\* C10: apply_config called a second time in a row with the same
\* configuration changes nothing.
C10_ApplyConfigIdempotent ==
    [][lastOp.name = "apply_config" /\ lastOp'.name = "apply_config"
        /\ lastOp'.config = lastOp.config => hub' = hub /\ fs' = fs]_vars

\* A configuration with a storage directory and no tracker path was applied
\* twice: the tracker path is the one derived by the first application.
C10_Witness ==
    /\ lastOp.name = "apply_config"
    /\ lastOp.repeat
    /\ lastOp.config.storage_dir = Some(Dir1)
    /\ lastOp.config.leak_tracker_path = None
    /\ hub.storage_dir = Some(Dir1)
    /\ hub.leak_tracker_path = Some(join(Dir1, "leak_tracker.json"))

----------------------------------------------------------------------------
(* The lounge on its own: lounge_append and lounge_clear up to the cap and  *)
(* past it.  The disk accepts every write here; failed writes are part of  *)
(* the hub specification above.                                            *)

\* How many entries are appended to a lounge before it is cleared.
MaxAppends == 502

LoungeInit ==
    /\ cfg = SwarmConfig_default /\ probe = NoProbe
    /\ registry = EmptyMap /\ reg_home = Some(Home) /\ reg_storage_dir = None
    /\ hub = SwarmHubState_default
    /\ hub_home \in {None, Some(Home)}
    /\ fs = EmptyFs
    /\ threads = {} /\ watch = NoWatch /\ wait = NoWait
    /\ lock = NoLock /\ inflight = NoCalls
    /\ lastCmd = NoCmd /\ lastOp = NoOp /\ appended = <<>>
    /\ thread_created_rx = NoReceiver /\ attached_threads = {}
    /\ listener = "none"
    /\ opCount = 0

\* The k-th entry appended since the lounge was last empty carries the text
\* "m<k>", counting from 0.
LoungeAppend ==
    LET k == Len(appended)
        entry == LoungeEntry(k, k)
    IN  /\ k < MaxAppends
        /\ hub' = lounge_append(hub, entry)
        /\ fs' = persist_state(fs, hub', hub_home, TRUE).files
        /\ appended' = Append(appended, entry)
        /\ lastOp' = [name |-> "lounge_append"]
        /\ UNCHANGED <<cfg, probe, registry, reg_home, reg_storage_dir,
                       hub_home, threads, watch, wait, lastCmd, opCount,
                       lock, inflight,
                       thread_created_rx, attached_threads, listener>>

LoungeClear ==
    /\ hub' = lounge_clear(hub)
    /\ fs' = persist_state(fs, hub', hub_home, TRUE).files
    /\ appended' = <<>>
    /\ lastOp' = [name |-> "lounge_clear"]
    /\ UNCHANGED <<cfg, probe, registry, reg_home, reg_storage_dir,
                   hub_home, threads, watch, wait, lastCmd, opCount,
                   lock, inflight,
                   thread_created_rx, attached_threads, listener>>

LoungeNext ==
    \/ LoungeAppend
    \/ LoungeClear

SpecLounge == LoungeInit /\ [][LoungeNext]_vars

\* C6: after n appends to an empty lounge the lounge holds the last
\* min(n, 500) appended entries in the order they were appended, so it never
\* holds more than 500.
C6_LoungeKeepsLast500 ==
    LET n == Len(appended)
        kept == IF n < LoungeCap THEN n ELSE LoungeCap
    IN  /\ Len(hub.lounge) <= LoungeCap
        /\ Len(hub.lounge) = kept
        /\ hub.lounge = SubSeq(appended, n - kept + 1, n)

\* m0 .. m500 were appended: m1 is at the front and m500 at the back.
C6_Witness ==
    /\ Len(appended) = 501
    /\ Len(hub.lounge) = 500
    /\ hub.lounge[1].text = 1
    /\ hub.lounge[500].text = 500

----------------------------------------------------------------------------
(* tools/handlers/swarm.rs: the swarm_hub tool of a session *)

\* A slip of the blank check: the text is not trimmed first.
is_blank_untrimmed(text) == text = <<>>

\* text.trim().is_empty()
is_blank(text) == trim(text) = <<>>

\* A slip of the list actions: the limit is taken before the reversal.
newest_first_take_then_rev(items, limit) ==
    LET n == IF IsSome(limit) THEN Unwrap(limit) ELSE Len(items)
        k == IF n < Len(items) THEN n ELSE Len(items)
    IN  [i \in 1 .. k |-> items[k - i + 1]]

\* items.iter().rev().take(limit.unwrap_or(items.len())).cloned().collect()
newest_first(items, limit) ==
    LET n == IF IsSome(limit) THEN Unwrap(limit) ELSE Len(items)
        k == IF n < Len(items) THEN n ELSE Len(items)
    IN  [i \in 1 .. k |-> items[Len(items) - i + 1]]

\* A slip of default_vote_weight: the role name is not looked at.
default_vote_weight_tier_only(reg, caller) ==
    LET info == registry_get(reg, caller)
    IN  IF ~IsSome(info) THEN 1
        ELSE IF Unwrap(info).tier >= 2 THEN 2
        ELSE 1

\* default_vote_weight
default_vote_weight(reg, caller) ==
    LET info == registry_get(reg, caller)
    IN  IF ~IsSome(info) THEN 1
        ELSE IF \/ eq_ignore_ascii_case(Unwrap(info).role,
                                        <<"s","c","h","o","l","a","r">>)
                \/ Unwrap(info).tier >= 2
             THEN 2
        ELSE 1

\* A slip of vote_cast: the cast is put in front of the earlier casts.
vote_with_cast_in_front(vote, cast) == [vote EXCEPT !.votes = <<cast>> \o @]

\* vote_cast: vote.votes.push(SwarmVoteCast {..}) on the vote of the snapshot.
vote_with_cast(vote, cast) == [vote EXCEPT !.votes = Append(@, cast)]

\* TimerStart: the timer handed to set_timer.
timer_started(label, duration_ms, clock) ==
    [label |-> label, duration_ms |-> duration_ms,
     started_at_unix_ms |-> Some(clock), running |-> TRUE]

\* A slip of TimerStop: started_at_unix_ms is left as it was.
timer_stopped_keeps_start(timer) == [timer EXCEPT !.running = FALSE]

\* TimerStop: state.timer of the snapshot with running and
\* started_at_unix_ms reset; the whole of it is handed to set_timer.
timer_stopped(timer) ==
    [timer EXCEPT !.running = FALSE, !.started_at_unix_ms = None]

\* SwarmHubHandler::handle: [ok, error, state, files, output] for the call
\* args made by the session caller at time clock, given the hub state, the
\* files, codex_home and the registry; env holds what the disk does
\* (state_ok, leak_ok: the two writes; read_ok: the read of the tracker file).
\* Uuid::new_v4 gives the id clock.
handle(args, state, files, home, reg, caller, clock, env) ==
    LET err(msg) == [ok |-> FALSE, error |-> msg, state |-> state,
                     files |-> files, output |-> <<>>]
        read(out) == [ok |-> TRUE, error |-> "", state |-> state,
                      files |-> files, output |-> out]
        \* a hub operation that drops the result of its write
        best(new, out) ==
            [ok |-> TRUE, error |-> "",
             state |-> after_write(state, new, env.state_ok),
             files |-> persist_state(files, new, home, env.state_ok).files,
             output |-> out]
        \* a hub operation that returns the result of its writes
        strict(new) ==
            LET done == persist_both(files, new, home, env.state_ok,
                                     env.leak_ok)
            IN  [ok |-> done.ok,
                 error |-> IF done.ok THEN "" ELSE "failed to write",
                 state |-> after_write(state, new, done.ok), files |-> done.files, output |-> <<>>]
        who == Some(caller)
        a == args.action
    IN
    CASE a = "lounge_append" ->
           IF is_blank(args.text) THEN err("lounge text must be non-empty")
           ELSE best(lounge_append(state,
                        [text |-> args.text, author_thread_id |-> who,
                         created_at_unix_ms |-> clock]), <<>>)
      [] a = "lounge_read" -> read(newest_first(state.lounge, args.limit))
      [] a = "lounge_clear" -> best(lounge_clear(state), <<>>)
      [] a = "vote_create" ->
           IF is_blank(args.topic) \/ args.options = <<>>
           THEN err("vote topic and options are required")
           ELSE LET vote == [id |-> clock, topic |-> args.topic,
                             options |-> args.options,
                             created_at_unix_ms |-> clock, votes |-> <<>>]
                IN  best(upsert_vote(state, vote), <<vote>>)
      [] a = "vote_cast" ->
           LET found == {i \in DOMAIN state.votes :
                            state.votes[i].id = args.vote_id}
           IN  IF found = {} THEN err("vote_id not found")
               ELSE IF IsSome(args.weight) /\ Unwrap(args.weight) <= 0
               THEN err("vote weight must be positive")
               ELSE LET old == state.votes[CHOOSE i \in found :
                                              \A j \in found : i <= j]
                        weight == IF IsSome(args.weight) THEN Unwrap(args.weight)
                                  ELSE default_vote_weight(reg, caller)
                        vote == vote_with_cast(old,
                                    [option |-> args.option, weight |-> weight,
                                     voter_thread_id |-> who])
                    IN  best(upsert_vote(state, vote), <<vote>>)
      [] a = "vote_status" ->
           read(IF IsSome(args.vote_id)
                THEN SelectSeq(state.votes,
                               LAMBDA v : v.id = Unwrap(args.vote_id))
                ELSE state.votes)
      [] a = "timer_start" ->
           best(set_timer(state, timer_started(args.label, args.duration_ms,
                                               clock)), <<>>)
      [] a = "timer_stop" ->
           LET timer == timer_stopped(state.timer)
           IN  best(set_timer(state, timer), <<timer>>)
      [] a = "timer_status" -> read(<<state.timer>>)
      [] a = "leak_tracker_set_path" ->
           best(leak_tracker_set_path(state, files, args.path,
                    IF IsSome(args.load_existing)
                    THEN Unwrap(args.load_existing) ELSE TRUE,
                    env.read_ok), <<>>)
      [] a = "leak_tracker_add" ->
           IF is_blank(args.label) \/ is_blank(args.value)
           THEN err("label and value are required")
           ELSE strict(leak_tracker_add(state,
                    [id |-> clock, label |-> args.label, value |-> args.value,
                     context |-> None, severity |-> None,
                     created_at_unix_ms |-> clock,
                     source_thread_id |-> who]))
      [] a = "leak_tracker_list" ->
           read(newest_first(state.leak_tracker.entries, args.limit))
      [] a = "leak_tracker_clear" -> strict(leak_tracker_clear(state))
      [] a = "task_add" ->
           IF is_blank(args.title) THEN err("task title is required")
           ELSE LET entry == [id |-> clock, title |-> args.title,
                              status |-> IF IsSome(args.status)
                                         THEN Unwrap(args.status)
                                         ELSE "pending",
                              owner_thread_id |-> who, notes |-> None,
                              created_at_unix_ms |-> clock]
                IN  best(task_add(state, entry), <<entry>>)
      [] a = "task_list" -> read(newest_first(state.tasks, args.limit))
      [] a = "evidence_add" ->
           IF is_blank(args.summary) THEN err("evidence summary is required")
           ELSE LET entry == [id |-> clock, summary |-> args.summary,
                              severity |-> None, source |-> None,
                              created_at_unix_ms |-> clock]
                IN  best(evidence_add(state, entry), <<entry>>)
      [] a = "evidence_list" -> read(newest_first(state.evidence, args.limit))
      [] a = "decision_add" ->
           IF is_blank(args.summary) THEN err("decision summary is required")
           ELSE LET entry == [id |-> clock, summary |-> args.summary,
                              rationale |-> None,
                              created_at_unix_ms |-> clock]
                IN  best(decision_add(state, entry), <<entry>>)
      [] a = "decision_list" -> read(newest_first(state.decisions, args.limit))
      [] a = "artifact_add" ->
           IF is_blank(args.label) THEN err("artifact label is required")
           ELSE LET entry == [id |-> clock, label |-> args.label,
                              path |-> None, created_at_unix_ms |-> clock]
                IN  best(artifact_add(state, entry), <<entry>>)
      [] a = "artifact_list" -> read(newest_first(state.artifacts, args.limit))

\* The threads whose sessions call the tool (session.conversation_id), and
\* what the registry holds for them: thread 1 is a scout, thread 2 an agent
\* whose role is named SCHOLAR with tier 0, thread 3 a scribe of tier 2,
\* thread 4 is not registered.
Callers == {1, 2, 3, 4}

HandlerRegistry ==
    LET r1 == registry_insert(EmptyMap,
                  root_info(1, [name |-> Scout, tier |-> 0], None))
        r2 == registry_insert(r1,
                  root_info(2, [name |-> <<"S","C","H","O","L","A","R">>,
                                tier |-> 0], None))
    IN  registry_insert(r2, root_info(3, [name |-> Scribe, tier |-> 2], None))

\* The calls of the tool: the arguments the model sends for each action.
HandlerArgs(state) ==
    LET Blank == <<" ">>
        Word == <<"o","k">>
        Limits == {None, Some(1)}
        Lists == {"lounge_read", "leak_tracker_list", "task_list",
                  "evidence_list", "decision_list", "artifact_list"}
    IN  {[action |-> "lounge_append", text |-> t] : t \in {Blank, Word}}
        \cup {[action |-> a, limit |-> l] : a \in Lists, l \in Limits}
        \cup {[action |-> a] : a \in {"lounge_clear", "timer_stop",
                                      "timer_status", "leak_tracker_clear"}}
        \cup {[action |-> "vote_create", topic |-> x[1], options |-> x[2]] :
                x \in {<<Word, <<"yes", "no">>>>, <<Blank, <<"yes", "no">>>>,
                       <<Word, <<>>>>}}
        \cup {[action |-> "vote_cast", vote_id |-> i, option |-> "yes",
               weight |-> w] :
                i \in {0} \cup {state.votes[k].id : k \in DOMAIN state.votes},
                w \in {None, Some(0), Some(3)}}
        \cup {[action |-> "vote_cast", vote_id |-> state.votes[k].id,
               option |-> "maybe", weight |-> Some(3)] :
                k \in DOMAIN state.votes}
        \cup {[action |-> "vote_status", vote_id |-> None]}
        \cup {[action |-> "timer_start", label |-> None,
               duration_ms |-> Some(50)]}
        \cup {[action |-> "leak_tracker_set_path",
               path |-> join(Dir1, "leak_tracker.json"), load_existing |-> l] :
                l \in {None, Some(FALSE)}}
        \cup {[action |-> "leak_tracker_add", label |-> x[1], value |-> x[2]] :
                x \in {<<Word, Word>>, <<Blank, Word>>, <<Word, Blank>>}}
        \cup {[action |-> "task_add", title |-> t, status |-> None] :
                t \in {Blank, Word}}
        \cup {[action |-> a, summary |-> t] :
                a \in {"evidence_add", "decision_add"}, t \in {Blank, Word}}
        \cup {[action |-> "artifact_add", label |-> t] : t \in {Blank, Word}}

\* What the disk may do during a call.  The write of the hub file matters
\* to the calls that reach a hub operation that writes, the write of the
\* tracker file to leak_tracker_add and leak_tracker_clear among them, the
\* read of the tracker file to leak_tracker_set_path when it loads.
HandlerEnv(args, rejected) ==
    LET writes == /\ ~rejected
                  /\ args.action \notin {"lounge_read", "leak_tracker_list",
                          "task_list", "evidence_list", "decision_list",
                          "artifact_list", "vote_status", "timer_status"}
    IN  {[state_ok |-> s, leak_ok |-> l, read_ok |-> r] :
            s \in IF writes THEN BOOLEAN ELSE {TRUE},
            l \in IF writes /\ args.action \in {"leak_tracker_add",
                                                 "leak_tracker_clear"}
                  THEN BOOLEAN ELSE {TRUE},
            r \in IF args.action = "leak_tracker_set_path"
                     /\ args.load_existing # Some(FALSE)
                  THEN BOOLEAN ELSE {TRUE}}

HandlerInit ==
    /\ cfg = SwarmConfig_default /\ probe = NoProbe
    /\ registry = HandlerRegistry
    /\ reg_home = Some(Home) /\ reg_storage_dir = None
    /\ hub = SwarmHubState_default /\ hub_home = Some(Home)
    /\ fs = EmptyFs
    /\ threads = {} /\ watch = NoWatch /\ wait = NoWait
    /\ lock = NoLock /\ inflight = NoCalls
    /\ lastCmd = NoCmd /\ lastOp = NoOp /\ appended = <<>>
    /\ thread_created_rx = NoReceiver /\ attached_threads = {}
    /\ listener = "none"
    /\ opCount = 0

\* One call of the tool.  The caller decides the outcome of a vote_cast
\* without a weight alone (the default weight), so the other calls are made
\* by thread 1.
Handle ==
    /\ opCount < MaxHubOps
    /\ \E args \in HandlerArgs(hub) :
       \E caller \in IF args.action = "vote_cast" /\ args.weight = None
                     THEN Callers ELSE {1} :
       \E env \in HandlerEnv(args,
                    ~handle(args, hub, fs, hub_home, registry, caller, now,
                            [state_ok |-> TRUE, leak_ok |-> TRUE,
                             read_ok |-> TRUE]).ok) :
            LET r == handle(args, hub, fs, hub_home, registry, caller, now, env)
            IN  /\ HubStep
                /\ hub' = r.state
                /\ fs' = r.files
                /\ lastOp' = [name |-> args.action, args |-> args, env |-> env,
                              caller |-> caller, ok |-> r.ok,
                              error |-> r.error, output |-> r.output]
                /\ HubFrame

HandlerNext == Handle

SpecHandler == HandlerInit /\ [][HandlerNext]_vars

\* ---- claims about the tool handler ----

\* The vote the last vote_cast call returned, and the cast it recorded.
CastVote == lastOp.output[1]

LastCast == CastVote.votes[Len(CastVote.votes)]

\* C15: a vote_cast call without a weight records the weight 2 when the
\* registry holds the caller with a tier of 2 or more or with a role that
\* equals "scholar" when case is ignored, and the weight 1 otherwise (a caller
\* the registry does not hold included); a call with a weight that is zero or
\* negative is rejected; a call with a positive weight records that weight;
\* and every cast the hub holds has a weight above zero.
C15_VoteCastWeight ==
    /\ \A i \in DOMAIN hub.votes :
         \A j \in DOMAIN hub.votes[i].votes : hub.votes[i].votes[j].weight > 0
    /\ lastOp.name = "vote_cast" =>
         LET w == lastOp.args.weight
             c == lastOp.caller
             heavy == /\ c \in DOMAIN registry
                      /\ \/ registry[c].tier >= 2
                         \/ [i \in DOMAIN registry[c].role |->
                               to_ascii_lowercase(registry[c].role[i])]
                              = <<"s","c","h","o","l","a","r">>
         IN  /\ (IsSome(w) /\ Unwrap(w) <= 0) => ~lastOp.ok
             /\ lastOp.ok =>
                  /\ LastCast.voter_thread_id = Some(c)
                  /\ LastCast.weight = IF IsSome(w) THEN Unwrap(w)
                                       ELSE IF heavy THEN 2 ELSE 1
                  /\ \E i \in DOMAIN hub.votes : hub.votes[i] = CastVote

\* A cast without a weight by the tier 0 agent whose role is SCHOLAR was
\* recorded with the weight 2.
C15_Witness ==
    /\ lastOp.name = "vote_cast" /\ lastOp.ok
    /\ lastOp.args.weight = None
    /\ lastOp.caller = 2
    /\ LastCast.weight = 2

\* A text made of white space only (the empty text included).
OnlyWhiteSpace(text) == \A i \in DOMAIN text : text[i] \in WhiteSpace

\* The calls C16 names: a blank lounge text, a blank vote topic or no options,
\* a weight that is not positive, a vote_id no vote has, a blank leak label
\* or value, a blank task title, a blank evidence or decision summary, a
\* blank artifact label.
InvalidCall(a, state) ==
    CASE a.action = "lounge_append" -> OnlyWhiteSpace(a.text)
      [] a.action = "vote_create" ->
           OnlyWhiteSpace(a.topic) \/ Len(a.options) = 0
      [] a.action = "vote_cast" ->
           \/ \A i \in DOMAIN state.votes : state.votes[i].id # a.vote_id
           \/ (IsSome(a.weight) /\ Unwrap(a.weight) <= 0)
      [] a.action = "leak_tracker_add" ->
           OnlyWhiteSpace(a.label) \/ OnlyWhiteSpace(a.value)
      [] a.action = "task_add" -> OnlyWhiteSpace(a.title)
      [] a.action \in {"evidence_add", "decision_add"} ->
           OnlyWhiteSpace(a.summary)
      [] a.action = "artifact_add" -> OnlyWhiteSpace(a.label)
      [] OTHER -> FALSE

\* C16: a call the handler rejects for its arguments (blank lounge text,
\* blank vote topic or empty options, non-positive weight, unknown vote_id,
\* blank leak label or value, blank task title, blank evidence or decision
\* summary, blank artifact label) returns an error and leaves the hub state
\* and the files as they were; and an error other than a failed write of
\* leak_tracker_add or leak_tracker_clear is such a rejection.
C16_RejectedCallChangesNothing ==
    [][ /\ InvalidCall(lastOp'.args, hub) =>
             /\ ~lastOp'.ok
             /\ hub' = hub
             /\ fs' = fs
        /\ (~lastOp'.ok /\ lastOp'.error # "failed to write") =>
             /\ InvalidCall(lastOp'.args, hub)
             /\ hub' = hub
      ]_vars

\* A blank lounge text was rejected by a hub that held a lounge entry and had
\* written its file.
C16_Witness ==
    /\ lastOp.name = "lounge_append" /\ ~lastOp.ok
    /\ lastOp.error = "lounge text must be non-empty"
    /\ lastOp.args.text = <<" ">>
    /\ Len(hub.lounge) = 1
    /\ fs[join(join(Home, "swarm"), "swarm_hub.json")].kind = "hub"

\* The actions whose hub operation drops the result of its write.
BestEffortActions ==
    {"lounge_append", "lounge_clear", "vote_create", "vote_cast",
     "timer_start", "timer_stop", "task_add", "evidence_add", "decision_add",
     "artifact_add"}

\* C18: a write that fails never fails lounge_append, lounge_clear,
\* upsert_vote (vote_create, vote_cast), set_timer (timer_start, timer_stop),
\* task_add, evidence_add, decision_add or artifact_add: a call with valid
\* arguments succeeds whatever the disk does.  leak_tracker_add and
\* leak_tracker_clear return the failure of either write as an error, and
\* succeed when both writes do.
C18_PersistFailure ==
    [][ LET a == lastOp'.args
            e == lastOp'.env
        IN  /\ (a.action \in BestEffortActions /\ ~InvalidCall(a, hub)) =>
                 lastOp'.ok
            /\ (a.action \in {"leak_tracker_add", "leak_tracker_clear"}
                /\ ~InvalidCall(a, hub)) =>
                 (lastOp'.ok <=> (e.state_ok /\ e.leak_ok))
      ]_vars

\* lounge_append succeeded although its write failed (the hub file does not
\* exist), on a hub that holds a leak entry no write ever stored.
C18_Witness ==
    /\ lastOp.name = "lounge_append" /\ lastOp.ok
    /\ ~lastOp.env.state_ok
    /\ Len(hub.lounge) = 1
    /\ Len(hub.leak_tracker.entries) = 1
    /\ \A p \in DOMAIN fs : fs[p].kind = "absent"

\* The collection a list action reads.
ListedItems(action, state) ==
    CASE action = "lounge_read" -> state.lounge
      [] action = "leak_tracker_list" -> state.leak_tracker.entries
      [] action = "task_list" -> state.tasks
      [] action = "evidence_list" -> state.evidence
      [] action = "decision_list" -> state.decisions
      [] action = "artifact_list" -> state.artifacts

ListActions ==
    {"lounge_read", "leak_tracker_list", "task_list", "evidence_list",
     "decision_list", "artifact_list"}

\* C19: lounge_read, leak_tracker_list, task_list, evidence_list,
\* decision_list and artifact_list return the first min(limit, len) elements
\* of the collection taken newest first (the element stored last comes
\* first), the whole collection reversed when no limit is given, and change
\* neither the hub state nor a file.
C19_ListsNewestFirst ==
    [][ lastOp'.name \in ListActions =>
          LET items == ListedItems(lastOp'.name, hub)
              limit == lastOp'.args.limit
              n == Len(items)
              k == IF IsSome(limit) /\ Unwrap(limit) < n
                   THEN Unwrap(limit) ELSE n
              out == lastOp'.output
          IN  /\ lastOp'.ok
              /\ Len(out) = k
              /\ \A i \in 1 .. k : out[i] = items[n + 1 - i]
              /\ hub' = hub
              /\ fs' = fs
      ]_vars

\* task_list with limit 1 on a hub that holds two tasks returned the task
\* added last.
C19_Witness ==
    /\ lastOp.name = "task_list" /\ lastOp.args.limit = Some(1)
    /\ Len(hub.tasks) = 2
    /\ lastOp.output = <<hub.tasks[2]>>
    /\ hub.tasks[1] # hub.tasks[2]

----------------------------------------------------------------------------
(* exec/src/lib.rs: SwarmAction::Wait *)

\* The agents a wait may name, and what the ThreadManager holds for each:
\* Unknown stands for a thread it does not know (subscribe_agent_status
\* answers ThreadNotFound), the others are values of AgentStatus.
WaitAgents == {1, 2}
KnownStatuses == {"PendingInit", "Running", "Completed", "Shutdown"}
AgentStates == KnownStatuses \cup {"Unknown"}

\* A slip of is_final_status: Running counts as final.
is_final_status_not_pending(status) == status # "PendingInit"

\* is_final_status
is_final_status(status) == status \notin {"PendingInit", "Running"}

\* The HashMap the statuses are inserted into, in order: a later pair of
\* the same id replaces the earlier one.
RECURSIVE status_map(_)
status_map(statuses) ==
    IF statuses = <<>> THEN <<>>
    ELSE LET n == Len(statuses)
             rest == status_map(SubSeq(statuses, 1, n - 1))
             id == statuses[n][1]
         IN  [x \in DOMAIN rest \cup {id} |->
                 IF x = id THEN statuses[n][2] ELSE rest[x]]

\* A slip of the result of wait: timed_out is never set.
timed_out_never(map) == FALSE

\* timed_out = status_map.is_empty()
timed_out(map) == DOMAIN map = {}

\* A slip of the choice of the statuses: the statuses collected while
\* subscribing are returned even when there are none.
must_race_never(initial_final_statuses) == FALSE

\* initial_final_statuses.is_empty(): the watches are raced.
must_race(initial_final_statuses) == initial_final_statuses = <<>>

\* --ids on the command line: 0 stands for a string parse_thread_id rejects.
WaitIdArgs == {<<>>, <<0>>, <<1>>, <<1, 1>>, <<1, 2>>, <<2, 1>>}
WaitTimeoutArgs == {None, Some(0), Some(5000)}

\* The number of status changes the agents go through during one wait.
MaxStatusChanges == 2

\* The end of the command: Err, or the output with the statuses given.
WaitFailed(error) ==
    [wait EXCEPT !.pc = "done", !.outcome = "error", !.error = error]

WaitReturns(w, statuses, cause) ==
    [w EXCEPT !.pc = "done", !.outcome = "ok", !.cause = cause,
              !.status = status_map(statuses),
              !.timed_out = timed_out(status_map(statuses))]

WaitInit ==
    /\ cfg = SwarmConfig_default /\ probe = NoProbe
    /\ registry = EmptyMap /\ reg_home = Some(Home) /\ reg_storage_dir = None
    /\ hub = SwarmHubState_default /\ hub_home = Some(Home) /\ fs = EmptyFs
    /\ threads = {}
    /\ lastCmd = NoCmd /\ lastOp = NoOp /\ appended = <<>>
    /\ thread_created_rx = NoReceiver /\ attached_threads = {}
    /\ listener = "none"
    /\ opCount = 0
    /\ lock = NoLock /\ inflight = NoCalls
    /\ watch \in [WaitAgents -> AgentStates]
    /\ \E ids \in WaitIdArgs, timeout_ms \in WaitTimeoutArgs :
         wait = [pc |-> "start", ids |-> ids, timeout_ms |-> timeout_ms,
                 deadline_ms |-> 0, seen |-> <<>>, status_rxs |-> <<>>,
                 initial_final_statuses |-> <<>>, raced |-> FALSE,
                 outcome |-> "none", error |-> "", cause |-> "",
                 status |-> <<>>, timed_out |-> FALSE]

WaitFrame ==
    UNCHANGED <<cfg, probe, registry, reg_home, reg_storage_dir, hub, hub_home,
                fs, threads, lastCmd, lastOp, appended, lock, inflight,
                thread_created_rx, attached_threads, listener>>

\* Lines 870-878: the timeout, the ids.
WaitStart ==
    /\ wait.pc = "start"
    /\ LET t == resolve_wait_timeout(wait.timeout_ms)
       IN  wait' =
             IF ~t.ok THEN WaitFailed("timeout_ms must be positive")
             ELSE IF \E i \in DOMAIN wait.ids :
                        ~IsSome(parse_thread_id(wait.ids[i]))
             THEN WaitFailed("invalid thread id")
             ELSE IF wait.ids = <<>>
             THEN WaitFailed("Must provide at least one agent id.")
             ELSE [wait EXCEPT !.pc = "subscribing", !.deadline_ms = t.value]
    /\ UNCHANGED <<watch, opCount>>
    /\ WaitFrame

\* Lines 880-902, one turn of the loop: subscribe_agent_status for the next
\* id (an error other than ThreadNotFound ends the command), and after the
\* last id the choice between the statuses collected and the race.
WaitSubscribe ==
    /\ wait.pc = "subscribing"
    /\ \E other_error \in BOOLEAN :
        LET i == Len(wait.seen) + 1
            id == wait.ids[i]
            now_status == watch[id]
            w == [wait EXCEPT
                    !.seen = Append(@, now_status),
                    !.status_rxs =
                        IF now_status = "Unknown" THEN @ ELSE Append(@, id),
                    !.initial_final_statuses =
                        IF now_status = "Unknown"
                        THEN Append(@, <<id, "NotFound">>)
                        ELSE IF is_final_status(now_status)
                        THEN Append(@, <<id, now_status>>)
                        ELSE @]
        IN  wait' =
              IF other_error THEN WaitFailed("subscribe_agent_status")
              ELSE IF i < Len(wait.ids) THEN w
              ELSE IF must_race(w.initial_final_statuses)
              THEN [w EXCEPT !.pc = "racing", !.raced = TRUE]
              ELSE WaitReturns(w, w.initial_final_statuses, "initial")
    /\ UNCHANGED <<watch, opCount>>
    /\ WaitFrame

\* wait_for_final_status of one id comes back with a final status and
\* join_next hands it over before the deadline.
WaitFirstFinal ==
    /\ wait.pc = "racing"
    /\ \E k \in DOMAIN wait.status_rxs :
        LET id == wait.status_rxs[k]
        IN  /\ is_final_status(watch[id])
            /\ wait' = WaitReturns(wait, <<<<id, watch[id]>>>>, "final")
    /\ UNCHANGED <<watch, opCount>>
    /\ WaitFrame

\* The watch of one id ends (changed() is an error): the task asks
\* agent_status once more and comes back with its answer when that is
\* final, with None otherwise, and the race is over.
WaitWatchClosed ==
    /\ wait.pc = "racing"
    /\ \E k \in DOMAIN wait.status_rxs,
          latest \in {"NotFound", "Running", "Completed"} :
        LET id == wait.status_rxs[k]
        IN  wait' = WaitReturns(wait,
                        IF is_final_status(latest) THEN <<<<id, latest>>>>
                        ELSE <<>>,
                        "watch_closed")
    /\ UNCHANGED <<watch, opCount>>
    /\ WaitFrame

\* timeout_at: the deadline passes before a task has come back.
WaitDeadline ==
    /\ wait.pc = "racing"
    /\ wait' = WaitReturns(wait, <<>>, "deadline")
    /\ UNCHANGED <<watch, opCount>>
    /\ WaitFrame

\* An agent goes from one status to another while the command runs.
AgentStatusChanges ==
    /\ wait.pc \in {"subscribing", "racing"}
    /\ opCount < MaxStatusChanges
    /\ \E id \in WaitAgents, status \in KnownStatuses :
        /\ watch[id] \in KnownStatuses
        /\ watch[id] # status
        /\ watch' = [watch EXCEPT ![id] = status]
    /\ opCount' = opCount + 1
    /\ UNCHANGED wait
    /\ WaitFrame

WaitNext ==
    \/ WaitStart
    \/ WaitSubscribe
    \/ WaitFirstFinal
    \/ WaitWatchClosed
    \/ WaitDeadline
    \/ AgentStatusChanges

SpecWait == WaitInit /\ [][WaitNext]_vars

\* ---- claims about wait ----

\* The positions of --ids whose agent was final or unknown when wait
\* subscribed to it.
SeenFinal ==
    {i \in DOMAIN wait.seen : wait.seen[i] \notin {"PendingInit", "Running"}}

\* wait has subscribed to every id it was given.
SubscribedAll ==
    /\ wait.pc \in {"racing", "done"}
    /\ Len(wait.ids) > 0
    /\ Len(wait.seen) = Len(wait.ids)

\* C12: when at least one requested id is final or unknown to the
\* ThreadManager at the time wait subscribes to it, wait returns without
\* racing the watches against the deadline, with timed_out = false and a
\* map that holds exactly the ids that were final or unknown at their
\* subscription, each final id with the status it had then and each unknown
\* id with NotFound; ids that were PendingInit or Running are left out, and
\* when every id was final every id is in the map.
C12_WaitFastPath ==
    (wait.pc = "done" /\ SubscribedAll /\ SeenFinal # {}) =>
        /\ ~wait.raced
        /\ wait.outcome = "ok"
        /\ ~wait.timed_out
        /\ DOMAIN wait.status = {wait.ids[i] : i \in SeenFinal}
        /\ \A i \in SeenFinal :
             (\A j \in SeenFinal : j > i => wait.ids[j] # wait.ids[i]) =>
                wait.status[wait.ids[i]] =
                    IF wait.seen[i] = "Unknown" THEN "NotFound"
                    ELSE wait.seen[i]

\* wait was given the ids 1 and 2; agent 1 was Completed and agent 2 Running
\* when wait subscribed: the result holds agent 1 alone.
C12_Witness ==
    /\ wait.pc = "done"
    /\ wait.ids = <<1, 2>>
    /\ wait.seen = <<"Completed", "Running">>
    /\ DOMAIN wait.status = {1}
    /\ wait.status[1] = "Completed"
    /\ ~wait.timed_out

\* C14: when no requested id is final or unknown at its subscription, wait
\* races the watches against the deadline.  When a task comes back first
\* with a final status, the map holds exactly that id with that status and
\* timed_out is false; when the deadline passes first, the map is empty,
\* timed_out is true and the command still returns Ok.  (The race can also
\* end because a watch ends: then the result is the one id with its final
\* status, or the empty map with timed_out true.)
C14_WaitSlowPath ==
    (SubscribedAll /\ SeenFinal = {}) =>
        /\ wait.raced
        /\ wait.pc = "done" =>
             /\ wait.outcome = "ok"
             /\ wait.cause \in {"final", "deadline", "watch_closed"}
             /\ wait.cause = "final" =>
                  /\ Cardinality(DOMAIN wait.status) = 1
                  /\ \A id \in DOMAIN wait.status :
                       /\ \E i \in DOMAIN wait.ids : wait.ids[i] = id
                       /\ wait.status[id] = watch[id]
                       /\ watch[id] \notin {"PendingInit", "Running"}
                  /\ ~wait.timed_out
             /\ wait.cause = "deadline" =>
                  /\ DOMAIN wait.status = {}
                  /\ wait.timed_out
             /\ wait.cause = "watch_closed" =>
                  \/ /\ Cardinality(DOMAIN wait.status) = 1
                     /\ ~wait.timed_out
                     /\ \A id \in DOMAIN wait.status :
                          wait.status[id] \notin {"PendingInit", "Running"}
                  \/ /\ DOMAIN wait.status = {}
                     /\ wait.timed_out

\* Agents 1 and 2 were Running when wait subscribed; agent 2 completed first
\* and wait returned agent 2 alone while agent 1 was still Running.
C14_Witness ==
    /\ wait.pc = "done" /\ wait.cause = "final"
    /\ wait.ids = <<1, 2>>
    /\ wait.seen = <<"Running", "Running">>
    /\ DOMAIN wait.status = {2}
    /\ wait.status[2] = "Completed"
    /\ watch[1] = "Running"
    /\ ~wait.timed_out

\* The statement C13 makes, as it stands: wait does not return before the
\* deadline while some requested id is still PendingInit or Running.
C13_ReturnsOnlyWhenAllFinal ==
    (wait.pc = "done" /\ wait.outcome = "ok"
     /\ wait.cause \in {"initial", "final"}) =>
        \A i \in DOMAIN wait.ids :
            watch[wait.ids[i]] \notin {"PendingInit", "Running"}

\* C13, as the code has it: wait blocks until at least one requested id is
\* final or unknown, the deadline passes or a watch ends.  It returns Ok
\* before the deadline, with every watch open, only when some requested id
\* was final or unknown at its subscription or has been seen final during
\* the race, and then the map is not empty and timed_out is false; the other
\* requested ids may still be PendingInit or Running.
C13_ReturnsOnFirstFinal ==
    /\ wait.pc \in {"start", "subscribing", "racing"} => wait.outcome = "none"
    /\ (wait.pc = "done" /\ wait.outcome = "ok") =>
         \/ wait.cause = "deadline" /\ wait.raced /\ wait.timed_out
         \/ wait.cause = "watch_closed" /\ wait.raced
         \/ /\ wait.cause = "initial"
            /\ SeenFinal # {}
            /\ DOMAIN wait.status # {}
            /\ ~wait.timed_out
         \/ /\ wait.cause = "final"
            /\ SeenFinal = {}
            /\ \E id \in DOMAIN wait.status :
                 watch[id] \notin {"PendingInit", "Running"}
            /\ ~wait.timed_out

\* wait returned, without a deadline, the Shutdown agent 2 while agent 1,
\* which it was also asked about, was still PendingInit.
C13_Witness ==
    /\ wait.pc = "done" /\ wait.outcome = "ok"
    /\ wait.cause = "initial"
    /\ wait.ids = <<2, 1>>
    /\ watch[2] = "Shutdown"
    /\ watch[1] = "PendingInit"
    /\ DOMAIN wait.status = {2}

----------------------------------------------------------------------------
(* The lounge of a hub that starts from a hub file: load_from_storage      *)
(* adopts the lounge of the file as it is, of whatever length, and         *)
(* lounge_append follows.                                                  *)

\* The longest lounge a hub file on the disk holds at the start.
MaxLoaded == 502

\* The lounge lengths of the hub files the hub may find.
LoadedLens == {0, 1, LoungeCap - 1, LoungeCap, LoungeCap + 1, MaxLoaded}

\* A hub file whose lounge holds n entries, the texts below zero so that
\* they differ from the appended ones.
hub_file(n) ==
    hub_to_json([SwarmHubState_default EXCEPT
                   !.lounge = [k \in 1..n |-> LoungeEntry(0 - k, 0)]])

LoadedInit ==
    /\ cfg = SwarmConfig_default /\ probe = NoProbe
    /\ registry = EmptyMap /\ reg_home = Some(Home) /\ reg_storage_dir = None
    /\ hub = SwarmHubState_default
    /\ hub_home \in {None, Some(Home)}
    /\ \E n \in LoadedLens :
          fs = [EmptyFs EXCEPT
                  ![join(join(Home, "swarm"), "swarm_hub.json")] = hub_file(n)]
    /\ threads = {} /\ watch = NoWatch /\ wait = NoWait
    /\ lock = NoLock /\ inflight = NoCalls
    /\ lastCmd = NoCmd /\ lastOp = NoOp /\ appended = <<>>
    /\ thread_created_rx = NoReceiver /\ attached_threads = {}
    /\ listener = "none"
    /\ opCount = 0

\* SwarmHub::load_from_storage; the read of the file may fail.
LoungeLoad ==
    \E read_ok \in BOOLEAN :
        LET r == load_from_storage(hub, fs, hub_home, read_ok)
        IN  /\ hub' = r.state
            /\ lastOp' = [name |-> "load_from_storage", ok |-> r.ok]
            /\ UNCHANGED <<cfg, probe, registry, reg_home, reg_storage_dir,
                           hub_home, fs, threads, watch, wait, lastCmd,
                           appended, opCount, lock, inflight,
                           thread_created_rx, attached_threads, listener>>

\* How many entries are appended after a start from a hub file.
MaxLoadedAppends == 4

LoadedAppend ==
    /\ Len(appended) < MaxLoadedAppends
    /\ LoungeAppend

LoadedNext ==
    \/ LoungeLoad
    \/ LoadedAppend
    \/ LoungeClear

SpecLoaded == LoadedInit /\ [][LoadedNext]_vars

\* C23: after any lounge_append the lounge holds at most 500 entries,
\* whatever it held before the call, a lounge of more than 500 entries that
\* load_from_storage adopted included.
C23_AppendBoundsLounge ==
    lastOp.name = "lounge_append" => Len(hub.lounge) <= LoungeCap

----------------------------------------------------------------------------
(* config.rs: SwarmConfig::from_toml, role and root_role_name over the     *)
(* role tables a configuration file can give                               *)

i32_MAX == 2147483647

\* from_toml, the roles: a role whose trimmed name is empty is skipped, the
\* others keep their name as it was written; a role without a tier takes its
\* index in the written list, counted from 0.
converted_roles(roles) ==
    LET kept == SelectSeq([i \in 1..Len(roles) |-> i],
                          LAMBDA i : trim(roles[i].name) # <<>>)
    IN  [k \in 1..Len(kept) |->
           LET idx == kept[k] - 1
               r == roles[kept[k]]
           IN  [name |-> r.name,
                model |-> r.model,
                base_instructions |-> r.base_instructions,
                tier |-> IF IsSome(r.tier) THEN Unwrap(r.tier)
                         ELSE IF idx <= i32_MAX THEN idx ELSE i32_MAX]]

\* SwarmHierarchy::from_toml
SwarmHierarchy_from_toml(toml, base) ==
    [allow_upward_calls |->
        IF IsSome(toml.allow_upward_calls) THEN Unwrap(toml.allow_upward_calls)
        ELSE base.allow_upward_calls,
     allow_same_tier_calls |->
        IF IsSome(toml.allow_same_tier_calls)
        THEN Unwrap(toml.allow_same_tier_calls)
        ELSE base.allow_same_tier_calls]

\* SwarmHubConfig::from_toml
SwarmHubConfig_from_toml(toml) ==
    [leak_tracker_path |-> toml.leak_tracker_path,
     storage_dir |-> toml.storage_dir]

\* SwarmConfig::from_toml
from_toml(toml) ==
    IF ~IsSome(toml) THEN SwarmConfig_default
    ELSE LET t == Unwrap(toml)
             d == SwarmConfig_default
             given(o) == IsSome(o) /\ trim(Unwrap(o)) # <<>>
             converted == IF IsSome(t.roles) THEN converted_roles(Unwrap(t.roles))
                          ELSE <<>>
         IN  [enabled |-> IF IsSome(t.enabled) THEN Unwrap(t.enabled)
                          ELSE d.enabled,
              root_role |-> IF given(t.root_role) THEN t.root_role
                            ELSE d.root_role,
              default_spawn_role |->
                  IF given(t.default_spawn_role) THEN t.default_spawn_role
                  ELSE d.default_spawn_role,
              roles |-> IF converted # <<>> THEN converted ELSE d.roles,
              hierarchy |->
                  IF IsSome(t.hierarchy)
                  THEN SwarmHierarchy_from_toml(Unwrap(t.hierarchy), d.hierarchy)
                  ELSE d.hierarchy,
              hub |-> IF IsSome(t.hub) THEN SwarmHubConfig_from_toml(Unwrap(t.hub))
                      ELSE d.hub]

\* Iterator::max_by_key over the roles: the index of the last role among
\* those of the greatest tier, 0 for no role.
max_by_key_tier(roles) ==
    IF roles = <<>> THEN 0
    ELSE CHOOSE i \in DOMAIN roles :
            /\ \A j \in DOMAIN roles : roles[j].tier <= roles[i].tier
            /\ \A j \in DOMAIN roles : roles[j].tier = roles[i].tier => j <= i

\* SwarmConfig::root_role_name: the configured root as it was written when
\* role() finds it, else the role max_by_key gives.
root_role_name(config) ==
    IF IsSome(config.root_role) /\ IsSome(role(config, Unwrap(config.root_role)))
    THEN config.root_role
    ELSE IF config.roles = <<>> THEN None
    ELSE Some(config.roles[max_by_key_tier(config.roles)].name)

\* The most roles a configuration file lists.
MaxRoles == 2

\* Names as a file may write them: plain, with a leading blank, blank, empty.
RoleNameArgs ==
    {<<"A","b">>, <<" ","A","b">>, <<"c","d">>, <<" ">>, <<>>}

\* The tier of a written role: absent, or 1.
RoleTierArgs == {None, Some(1)}

RoleTomls ==
    {[name |-> n, model |-> None, base_instructions |-> None, tier |-> t] :
     n \in RoleNameArgs, t \in RoleTierArgs}

RECURSIVE SeqsUpTo(_, _)
SeqsUpTo(S, n) ==
    IF n = 0 THEN {<<>>}
    ELSE LET shorter == SeqsUpTo(S, n - 1)
         IN  shorter \cup {Append(s, x) : s \in shorter, x \in S}

\* root_role as written: absent, a spelling of "Ab", an unknown name, blank.
RootRoleArgs == {None, Some(<<"a","B"," ">>), Some(<<"x">>), Some(<<" ">>)}

SwarmTomls ==
    {None} \cup
    {Some([enabled |-> None, root_role |-> rr, default_spawn_role |-> None,
           roles |-> rs, hierarchy |-> None, hub |-> None]) :
     rr \in RootRoleArgs,
     rs \in {None} \cup {Some(l) : l \in SeqsUpTo(RoleTomls, MaxRoles)}}

\* The names role() is asked for.
RoleQueries ==
    RoleNameArgs \cup {<<"a","B">>, <<"a","b"," ">>, <<"\t","C","D","\n">>,
                       Scout, <<" ","s","c","o","u","t">>}

RolesInit ==
    /\ cfg \in {from_toml(t) : t \in SwarmTomls}
    /\ probe \in {[fn |-> "role", name |-> q, done |-> FALSE, result |-> None] :
                  q \in RoleQueries}
               \cup {[fn |-> "root_role_name", done |-> FALSE, result |-> None]}
    /\ registry = EmptyMap /\ reg_home = Some(Home) /\ reg_storage_dir = None
    /\ hub = SwarmHubState_default /\ hub_home = Some(Home) /\ fs = EmptyFs
    /\ threads = {} /\ watch = NoWatch /\ wait = NoWait
    /\ lock = NoLock /\ inflight = NoCalls
    /\ lastCmd = NoCmd /\ lastOp = NoOp /\ appended = <<>>
    /\ thread_created_rx = NoReceiver /\ attached_threads = {}
    /\ listener = "none"
    /\ opCount = 0

RoleLookup ==
    /\ probe.fn = "role" /\ ~probe.done
    /\ probe' = [probe EXCEPT !.done = TRUE, !.result = role(cfg, probe.name)]
    /\ UNCHANGED <<cfg, registry, reg_home, reg_storage_dir, hub, hub_home, fs,
                   threads, watch, wait, lastCmd, lastOp, appended, opCount,
                   lock, inflight,
                   thread_created_rx, attached_threads, listener>>

RootRoleName ==
    /\ probe.fn = "root_role_name" /\ ~probe.done
    /\ probe' = [probe EXCEPT !.done = TRUE, !.result = root_role_name(cfg)]
    /\ UNCHANGED <<cfg, registry, reg_home, reg_storage_dir, hub, hub_home, fs,
                   threads, watch, wait, lastCmd, lastOp, appended, opCount,
                   lock, inflight,
                   thread_created_rx, attached_threads, listener>>

RolesNext ==
    \/ RoleLookup
    \/ RootRoleName

SpecRoles == RolesInit /\ [][RolesNext]_vars

\* The roles of the greatest tier, as indexes into the roles list.
TopTier(roles) ==
    {i \in DOMAIN roles : \A j \in DOMAIN roles : roles[j].tier <= roles[i].tier}

\* C24: root_role_name returns the configured root role name when role()
\* resolves it; otherwise the name of the role of the greatest tier, the
\* first of them in the order of the roles list when several share it.
C24_RootRoleName ==
    probe.fn = "root_role_name" /\ probe.done =>
        LET top == TopTier(cfg.roles)
            first == CHOOSE i \in top : \A j \in top : i <= j
        IN  probe.result =
                IF IsSome(cfg.root_role)
                   /\ IsSome(role(cfg, Unwrap(cfg.root_role)))
                THEN cfg.root_role
                ELSE IF cfg.roles = <<>> THEN None
                ELSE Some(cfg.roles[first].name)

\* The spellings of a name: itself, lower case, and either with blanks
\* around it.
Spellings(name) ==
    LET lower == [i \in DOMAIN name |-> to_ascii_lowercase(name[i])]
    IN  {name, lower, <<" ">> \o name \o <<"\t">>, <<"\n">> \o lower \o <<" ">>}

\* C25: role(q) is the first role r with trim(q) equal to trim(r.name)
\* ignoring ASCII case; every spelling of q gives the same role, every role
\* kept by from_toml is found under its own configured name, and a blank
\* query finds no role.
C25_RoleLookup ==
    probe.fn = "role" /\ probe.done =>
        LET q == trim(probe.name)
            hits == {i \in DOMAIN cfg.roles :
                        eq_ignore_ascii_case(trim(cfg.roles[i].name), q)}
        IN  /\ probe.result =
                  IF q = <<>> \/ hits = {} THEN None
                  ELSE Some(cfg.roles[CHOOSE i \in hits : \A j \in hits : i <= j])
            /\ \A s \in Spellings(probe.name) : role(cfg, s) = probe.result
            /\ (\E i \in DOMAIN cfg.roles : cfg.roles[i].name = probe.name)
                   => IsSome(probe.result)
            /\ q = <<>> => probe.result = None

----------------------------------------------------------------------------
(* The tool handler again: what a failed write leaves in memory *)

\* The same disk, but taking both writes.
WritesOk(env) == [env EXCEPT !.state_ok = TRUE, !.leak_ok = TRUE]

\* The actions that only read the hub.
ReadActions ==
    {"lounge_read", "leak_tracker_list", "task_list", "evidence_list",
     "decision_list", "artifact_list", "vote_status", "timer_status"}

\* C26: a mutation is not rolled back when its write fails.  A
\* leak_tracker_add whose write fails returns an error and the hub holds the
\* added entry; a leak_tracker_clear whose write fails returns an error and
\* the tracker is empty; a best-effort mutation whose write fails succeeds
\* and leaves the state it leaves when the write succeeds, the disk being
\* otherwise the same.  A later read changes nothing of it.
C26_NoRollback ==
    [][ LET a == lastOp'.args
            e == lastOp'.env
            old == hub.leak_tracker.entries
            new == hub'.leak_tracker.entries
        IN  /\ (~InvalidCall(a, hub) /\ (~e.state_ok \/ ~e.leak_ok)) =>
                 /\ a.action = "leak_tracker_add" =>
                      /\ ~lastOp'.ok
                      /\ Len(new) = Len(old) + 1
                      /\ SubSeq(new, 1, Len(old)) = old
                      /\ new[Len(new)].label = a.label
                      /\ new[Len(new)].value = a.value
                 /\ a.action = "leak_tracker_clear" =>
                      ~lastOp'.ok /\ new = <<>>
                 /\ a.action \in BestEffortActions
                                   \cup {"leak_tracker_set_path"} =>
                      /\ lastOp'.ok
                      /\ hub' = handle(a, hub, fs, hub_home, registry,
                                       lastOp'.caller, now, WritesOk(e)).state
            /\ a.action \in ReadActions => hub' = hub
      ]_vars

\* leak_tracker_list gives a leak entry although no file was ever written:
\* the write of the leak_tracker_add that made the entry had failed.
C26_Witness ==
    /\ lastOp.name = "leak_tracker_list" /\ lastOp.ok
    /\ Len(lastOp.output) = 1
    /\ lastOp.output[1].label = hub.leak_tracker.entries[1].label
    /\ \A p \in DOMAIN fs : fs[p].kind = "absent"

----------------------------------------------------------------------------
(* The hub again: the two files of leak_tracker_add, leak_tracker_clear    *)
(* and persist_now                                                         *)

\* The operations that write the hub file and then the tracker file.
TwoFileOps == {"leak_tracker_add", "leak_tracker_clear", "persist_now"}

\* C27: the leak tracker is persisted independently of the hub snapshot:
\* after leak_tracker_add, leak_tracker_clear or persist_now whose write of
\* swarm_hub.json failed while the disk would take the tracker file, the
\* tracker file holds the current tracker.
C27_TrackerWrittenAlone ==
    (/\ lastOp.name \in TwoFileOps
     /\ ~lastOp.state_ok /\ lastOp.leak_ok
     /\ IsSome(leak_tracker_file(hub, hub_home))) =>
        fs[Unwrap(leak_tracker_file(hub, hub_home))]
            = leak_to_json(hub.leak_tracker)

----------------------------------------------------------------------------
(* The registry again: what its operations remove *)

\* C29: registry entries are never removed: an id get() finds is found
\* after every later register_root, register_child, apply_storage_dir,
\* load_from_storage and persist_now.
C29_EntriesNeverRemoved ==
    [][ \A t \in RegThreadIds :
            IsSome(registry_get(registry, t)) =>
                IsSome(registry_get(registry', t)) ]_vars

----------------------------------------------------------------------------
(* run_swarm_command again, on a disk whose registry file is no JSON when  *)
(* the first command starts                                                *)

CorruptOrchInit ==
    /\ cfg \in Configs
    /\ probe = NoProbe
    /\ registry = EmptyMap /\ reg_home = Some(Home) /\ reg_storage_dir = None
    /\ hub = SwarmHubState_default /\ hub_home = Some(Home) /\ fs = CorruptFs
    /\ threads = {} /\ watch = NoWatch /\ wait = NoWait
    /\ lock = NoLock /\ inflight = NoCalls
    /\ lastCmd = NoCmd /\ lastOp = NoOp /\ appended = <<>>
    /\ thread_created_rx = NoReceiver /\ attached_threads = {}
    /\ listener = "none"
    /\ opCount = 0

SpecOrchCorrupt == CorruptOrchInit /\ [][OrchNext]_vars

\* The registry file the command loads is no JSON.
RegistryFileCorrupt ==
    LET path == registry_state_path(process_storage_dir, reg_home)
    IN  IsSome(path) /\ fs[Unwrap(path)].kind = "corrupt"

\* C30: a registry file that fails to parse stops the command: it makes no
\* call to the ThreadManager (no spawn, send or close), passes no policy
\* gate on an empty registry, and leaves the corrupt file as it is.
C30_CorruptRegistryStops ==
    [][ (RegistryFileCorrupt /\ lastCmd = NoCmd /\ lastCmd' # NoCmd) =>
            /\ lastCmd'.calls = <<>>
            /\ lastCmd'.outcome \notin {"ok", "policy_error"}
            /\ fs' = fs ]_vars

----------------------------------------------------------------------------
(* Concurrent callers of one hub and one registry: each operation is the   *)
(* sequence of steps between its awaits.  A task takes the write lock and  *)
(* mutates (ConcLock), clones the state and drops the guard (ConcUnlock),  *)
(* then writes the snapshot (ConcPersist, ConcPersistLeak);                *)
(* leak_tracker_set_path with load_existing reads the tracker file before  *)
(* it drops the guard (ConcRead); vote_cast of the tool handler takes a    *)
(* snapshot first (ConcSnapshot) and upserts the vote it changed.          *)

\* The tasks that call the hub; task p is the session of thread p.
Tasks == {1, 2}

\* How many calls the tasks start in a run.
MaxCalls == 2

\* The vote the tasks cast on, created before they start.
OpenVote ==
    [id |-> "v1", topic |-> "t1", options |-> <<"yes", "no">>,
     created_at_unix_ms |-> 0, votes |-> <<>>]

\* The calls a task makes.  vote_cast carries its weight, so that the
\* registry is not read between the snapshot and the upsert.
ConcCalls(p) ==
    {[op |-> "vote_cast", vote_id |-> i, option |-> "yes", weight |-> Some(w)] :
        i \in VoteIds, w \in {0, 1}}
    \cup {[op |-> "lounge_append", entry |-> LoungeEntry(p, 0)]}
    \cup {[op |-> "leak_tracker_add", entry |-> LeakEntry(0)]}
    \cup {[op |-> "leak_tracker_set_path",
           path |-> join(Dir1, "leak_tracker.json"), load_existing |-> l] :
          l \in BOOLEAN}
    \cup {[op |-> "register_root",
           info |-> root_info(p, [name |-> Scout, tier |-> 0], None)]}
    \cup {[op |-> "timer_start", label |-> Some(x[1]),
           duration_ms |-> Some(x[2])] : x \in {<<"a", 10>>, <<"b", 20>>}}
    \cup {[op |-> "timer_stop"], [op |-> "timer_status"]}

\* A task between two calls; last is what its last call returned.
Idle(last) == [pc |-> "idle", call |-> [op |-> "none"], no |-> 0,
               snapshot |-> <<>>, overlapped |-> FALSE, wrote |-> TRUE,
               last |-> last]

\* What a call returned: the call, its number among the calls of the run,
\* its result, whether a call of another task ran while it did, and whether
\* every write it made succeeded.
Returned(c, ok) ==
    Idle([call |-> c.call, no |-> c.no, ok |-> ok,
          overlapped |-> c.overlapped, wrote |-> c.wrote])

\* Which lock a call takes.
lock_of(call) == IF call.op = "register_root" THEN "registry" ELSE "hub"

ConcInit ==
    /\ cfg = SwarmConfig_default /\ probe = NoProbe
    /\ registry = EmptyMap /\ reg_home = Some(Home) /\ reg_storage_dir = None
    /\ hub = upsert_vote(SwarmHubState_default, OpenVote)
    /\ hub_home = Some(Home)
    /\ fs = persist_state(EmptyFs, hub, hub_home, TRUE).files
    /\ threads = {} /\ watch = NoWatch /\ wait = NoWait
    /\ lastCmd = NoCmd /\ lastOp = NoOp /\ appended = <<>>
    /\ thread_created_rx = NoReceiver /\ attached_threads = {}
    /\ listener = "none"
    /\ opCount = 0
    /\ lock = NoLock
    /\ inflight = [p \in Tasks |->
                       Idle([call |-> [op |-> "none"], no |-> 0, ok |-> TRUE,
                             overlapped |-> FALSE, wrote |-> TRUE])]

ConcFrame ==
    UNCHANGED <<cfg, probe, reg_home, reg_storage_dir, hub_home, threads,
                watch, wait, lastCmd, lastOp, appended,
                thread_created_rx, attached_threads, listener>>

\* A task begins a call; the calls of the other tasks that are in progress
\* overlap it.
ConcStart(p) ==
    /\ opCount < MaxCalls
    /\ inflight[p].pc = "idle"
    /\ \E call \in ConcCalls(p) :
          inflight' = [q \in Tasks |->
              IF q = p
              THEN [pc |-> IF call.op \in {"vote_cast", "timer_stop",
                                            "timer_status"}
                           THEN "snapshot" ELSE "lock",
                    call |-> call, no |-> opCount + 1, snapshot |-> <<>>,
                    wrote |-> TRUE,
                    overlapped |-> \E r \in Tasks \ {p} :
                                      inflight[r].pc # "idle",
                    last |-> inflight[p].last]
              ELSE IF inflight[q].pc # "idle"
                   THEN [inflight[q] EXCEPT !.overlapped = TRUE]
                   ELSE inflight[q]]
    /\ opCount' = opCount + 1
    /\ UNCHANGED <<hub, registry, fs, lock>>
    /\ ConcFrame

\* vote_cast, lines 174-197 of the handler: hub.snapshot() under the read
\* lock, the vote looked up in the snapshot, the weight checked, the cast
\* pushed on the copy.  The call goes on to upsert_vote with the copy.
\* timer_stop, lines 227-229: hub.snapshot(), running and
\* started_at_unix_ms reset on the copy; the call goes on to set_timer with
\* the copy.  timer_status, lines 238-239: hub.snapshot() and no more.
ConcSnapshot(p) ==
    LET c == inflight[p]
        found == {i \in DOMAIN hub.votes : hub.votes[i].id = c.call.vote_id}
        old == hub.votes[CHOOSE i \in found : \A j \in found : i <= j]
        cast == [option |-> c.call.option, weight |-> Unwrap(c.call.weight),
                 voter_thread_id |-> Some(p)]
    IN  /\ c.pc = "snapshot"
        /\ lock.hub = 0
        /\ inflight' = [inflight EXCEPT ![p] =
              CASE c.call.op = "timer_status" -> Returned(c, TRUE)
                [] c.call.op = "timer_stop" ->
                     [c EXCEPT !.pc = "lock",
                               !.snapshot = timer_stopped(hub.timer)]
                [] OTHER ->
                     IF found = {} \/ Unwrap(c.call.weight) <= 0
                     THEN Returned(c, FALSE)
                     ELSE [c EXCEPT !.pc = "lock",
                                    !.snapshot = vote_with_cast(old, cast)]]
        /\ UNCHANGED <<hub, registry, fs, lock, opCount>>
        /\ ConcFrame

\* self.state.write().await and the mutation under the guard.
ConcLock(p) ==
    LET c == inflight[p]
        call == c.call
    IN  /\ c.pc = "lock"
        /\ lock[lock_of(call)] = 0
        /\ lock' = [lock EXCEPT ![lock_of(call)] = p]
        /\ hub' = CASE call.op = "vote_cast" -> upsert_vote(hub, c.snapshot)
                    [] call.op = "lounge_append" ->
                           lounge_append(hub, call.entry)
                    [] call.op = "leak_tracker_add" ->
                           leak_tracker_add(hub, call.entry)
                    [] call.op = "leak_tracker_set_path" ->
                           leak_tracker_set_path(hub, fs, call.path, FALSE, TRUE)
                    [] call.op = "timer_start" ->
                           set_timer(hub, timer_started(call.label,
                                              call.duration_ms, c.no))
                    [] call.op = "timer_stop" -> set_timer(hub, c.snapshot)
                    [] OTHER -> hub
        /\ registry' = IF call.op = "register_root"
                       THEN registry_insert(registry, call.info)
                       ELSE registry
        /\ inflight' = [inflight EXCEPT ![p].pc =
              IF call.op = "leak_tracker_set_path" /\ call.load_existing
              THEN "reading" ELSE "locked"]
        /\ UNCHANGED <<fs, opCount>>
        /\ ConcFrame

\* leak_tracker_set_path, lines 251-256: tokio::fs::read_to_string(&path)
\* is awaited inside the block that holds the write guard.
ConcRead(p) ==
    LET c == inflight[p]
    IN  /\ c.pc = "reading"
        /\ \E read_ok \in BOOLEAN :
              hub' = leak_tracker_set_path(hub, fs, c.call.path, TRUE, read_ok)
        /\ inflight' = [inflight EXCEPT ![p].pc = "locked"]
        /\ UNCHANGED <<registry, fs, lock, opCount>>
        /\ ConcFrame

\* state.clone() at the end of the block; the guard is dropped.
ConcUnlock(p) ==
    LET c == inflight[p]
    IN  /\ c.pc = "locked"
        /\ lock' = [lock EXCEPT ![lock_of(c.call)] = 0]
        /\ inflight' = [inflight EXCEPT ![p] =
              [c EXCEPT !.pc = "persist",
                        !.snapshot = IF c.call.op = "register_root"
                                     THEN map_values(registry) ELSE hub]]
        /\ UNCHANGED <<hub, registry, fs, opCount>>
        /\ ConcFrame

\* persist_state(&snapshot): the write of the hub file, or of the registry
\* file.  leak_tracker_add returns its failure, the others drop it.
ConcPersist(p) ==
    LET c == inflight[p]
    IN  /\ c.pc = "persist"
        /\ \E write_ok \in BOOLEAN :
              LET done == IF c.call.op = "register_root"
                          THEN [ok |-> write_ok,
                                files |-> registry_persist_state(fs,
                                    reg_storage_dir, reg_home, c.snapshot,
                                    write_ok)]
                          ELSE persist_state(fs, c.snapshot, hub_home, write_ok)
              IN  /\ fs' = done.files
                  /\ inflight' = [inflight EXCEPT ![p] =
                        IF c.call.op = "leak_tracker_add"
                        THEN IF done.ok THEN [c EXCEPT !.pc = "persist_leak"]
                             ELSE Returned([c EXCEPT !.wrote = FALSE], FALSE)
                        ELSE Returned([c EXCEPT !.wrote = done.ok], TRUE)]
        /\ UNCHANGED <<hub, registry, lock, opCount>>
        /\ ConcFrame

\* persist_leak_tracker(&snapshot) of leak_tracker_add.
ConcPersistLeak(p) ==
    LET c == inflight[p]
    IN  /\ c.pc = "persist_leak"
        /\ \E write_ok \in BOOLEAN :
              LET done == persist_leak_tracker(fs, c.snapshot, hub_home, write_ok)
              IN  /\ fs' = done.files
                  /\ inflight' = [inflight EXCEPT ![p] =
                        Returned([c EXCEPT !.wrote = done.ok], done.ok)]
        /\ UNCHANGED <<hub, registry, lock, opCount>>
        /\ ConcFrame

ConcNext ==
    \E p \in Tasks :
        \/ ConcStart(p)
        \/ ConcSnapshot(p)
        \/ ConcLock(p)
        \/ ConcRead(p)
        \/ ConcUnlock(p)
        \/ ConcPersist(p)
        \/ ConcPersistLeak(p)

SpecConc == ConcInit /\ [][ConcNext]_vars

\* The vote the tasks cast on, as the hub holds it.
StoredVote == hub.votes[CHOOSE i \in DOMAIN hub.votes : hub.votes[i].id = "v1"]

\* The cast a vote_cast of task p pushes.
CastOf(p) == [option |-> "yes", weight |-> 1, voter_thread_id |-> Some(p)]

\* The last call of task p was a vote_cast that returned success.
CastReturned(p) ==
    /\ inflight[p].pc = "idle"
    /\ inflight[p].last.call.op = "vote_cast"
    /\ inflight[p].last.ok

\* Where a cast stands among the casts of the stored vote.
CastAt(p) == {i \in DOMAIN StoredVote.votes : StoredVote.votes[i] = CastOf(p)}

\* C22: vote_cast is a snapshot, a change of the copy and an upsert.  When
\* two tasks have cast on the same vote and both calls returned success, the
\* stored vote holds the cast of at least one of them; when neither call
\* ran while a call of the other task did, it holds both in call order: the
\* cast of the earlier call before the cast of the later one, which is the
\* last.  (That it may hold only one of the two when the calls interleave
\* is the state C22_Witness.)
C22_VoteCastInterleaving ==
    \A p \in Tasks, q \in Tasks :
        (p # q /\ CastReturned(p) /\ CastReturned(q)) =>
            /\ CastAt(p) \cup CastAt(q) # {}
            /\ (/\ ~inflight[p].last.overlapped
                /\ ~inflight[q].last.overlapped
                /\ inflight[q].last.no < inflight[p].last.no) =>
                  /\ Len(StoredVote.votes) \in CastAt(p)
                  /\ \E i \in CastAt(q) : i < Len(StoredVote.votes)

\* A lost update: both tasks cast on the vote while the other did, both
\* calls returned success, and the stored vote holds one cast.
C22_Witness ==
    /\ CastReturned(1) /\ CastReturned(2)
    /\ inflight[1].last.overlapped /\ inflight[2].last.overlapped
    /\ Len(StoredVote.votes) = 1

\* The steps of an operation that touch the file system.
IoSteps == {"reading", "persist", "persist_leak"}

\* C28: no hub or registry operation touches the file system while it holds
\* the state lock, leak_tracker_set_path with load_existing included.
C28_NoIoUnderLock ==
    \A p \in Tasks :
        inflight[p].pc \in IoSteps => (lock.hub # p /\ lock.registry # p)

----------------------------------------------------------------------------
(* The hub again: what apply_config leaves in the state *)

\* C31: after apply_config(c), whatever the state was before: storage_dir is
\* c.storage_dir when that is set, leak_tracker_path is c.leak_tracker_path
\* when that is set, and leak_tracker_path is D/leak_tracker.json when
\* c.leak_tracker_path is unset and c.storage_dir = D is set.
C31_ApplyConfigRules ==
    lastOp.name = "apply_config" =>
        LET c == lastOp.config
        IN  /\ IsSome(c.storage_dir) => hub.storage_dir = c.storage_dir
            /\ IsSome(c.leak_tracker_path) =>
                  hub.leak_tracker_path = c.leak_tracker_path
            /\ (~IsSome(c.leak_tracker_path) /\ IsSome(c.storage_dir)) =>
                  hub.leak_tracker_path =
                      Some(join(Unwrap(c.storage_dir), "leak_tracker.json"))

----------------------------------------------------------------------------
(* The tool handler again: the options of the casts *)

\* C35: after any sequence of vote_create and vote_cast calls of the tool,
\* every cast stored in a vote names an option that is a member of that
\* vote's options list.
C35_CastsNameAnOption ==
    \A i \in DOMAIN hub.votes :
        \A k \in DOMAIN hub.votes[i].votes :
            hub.votes[i].votes[k].option \in Range(hub.votes[i].options)

\* C36: from the default hub state, after any interleaving of timer_start,
\* timer_stop and timer_status calls by any agents, the timer is running
\* if and only if started_at_unix_ms is set.
C36_RunningIffStarted ==
    hub.timer.running <=> IsSome(hub.timer.started_at_unix_ms)

\* A timer_stop and a timer_start of two tasks ran while the other did, both
\* have returned, and the timer the hub holds was started and is stopped.
C36_Witness ==
    /\ \E p \in Tasks, q \in Tasks :
          /\ inflight[p].pc = "idle" /\ inflight[q].pc = "idle"
          /\ inflight[p].last.call.op = "timer_stop"
          /\ inflight[q].last.call.op = "timer_start"
          /\ inflight[p].last.overlapped /\ inflight[q].last.overlapped
    /\ IsSome(hub.timer.label)
    /\ ~hub.timer.running

----------------------------------------------------------------------------
(* Concurrent callers again: the timer, and what the files hold at rest *)

\* The timer the hub holds is the one a timer_start that has returned
\* handed to set_timer (the call numbered n started it at time n).
StartReturned ==
    \E q \in Tasks :
        /\ inflight[q].pc = "idle"
        /\ inflight[q].last.call.op = "timer_start"
        /\ hub.timer = timer_started(inflight[q].last.call.label,
                                     inflight[q].last.call.duration_ms,
                                     inflight[q].last.no)

\* C37: timer_stop changes only running and started_at_unix_ms: once
\* timer_start(L, D) has returned, the stored timer keeps label L and
\* duration D until the next timer_start, however timer_stop calls of other
\* tasks interleave with it; a step that changes the label or the duration
\* of such a timer is the set_timer of a timer_start.
C37_StopKeepsLabelAndDuration ==
    [][ StartReturned =>
          \/ /\ hub'.timer.label = hub.timer.label
             /\ hub'.timer.duration_ms = hub.timer.duration_ms
          \/ \E p \in Tasks :
                /\ inflight[p].pc = "lock" /\ inflight'[p].pc = "locked"
                /\ inflight[p].call.op = "timer_start" ]_vars

\* Every call of the run has returned, and every write it made succeeded.
AllReturnedAndWritten ==
    /\ \A p \in Tasks : inflight[p].pc = "idle" /\ inflight[p].last.wrote
    /\ \A n \in 1 .. opCount : \E p \in Tasks : inflight[p].last.no = n

\* C38: the persisted files converge to the state in memory: once the
\* concurrent hub mutations and registry inserts have all returned with no
\* write error, swarm_hub.json holds the hub state and swarm_registry.json
\* the agents of the registry.
C38_FilesConverge ==
    AllReturnedAndWritten =>
        /\ fs[Unwrap(hub_state_path(hub, hub_home))] = hub_to_json(hub)
        /\ registry # EmptyMap =>
              fs[Unwrap(registry_state_path(reg_storage_dir, reg_home))]
                  = registry_to_json(map_values(registry))

----------------------------------------------------------------------------
(* run_swarm_command again: the tiers of the children *)

\* The registered children whose parent is registered too, with the parent.
ParentedPairs ==
    {<<c, Unwrap(registry[c].parent_thread_id)>> :
        c \in {t \in DOMAIN registry :
                  /\ IsSome(registry[t].parent_thread_id)
                  /\ Unwrap(registry[t].parent_thread_id) \in DOMAIN registry}}

\* C39: under a fixed config with swarm enabled and allow_upward_calls =
\* false, after any sequence of spawns every registered child whose parent
\* was in the registry when it was spawned has a tier lower than or equal to
\* its parent's tier, and strictly lower when allow_same_tier_calls = false.
C39_ChildTierBelowParent ==
    (cfg.enabled /\ ~cfg.hierarchy.allow_upward_calls) =>
        \A x \in ParentedPairs :
            /\ registry[x[1]].tier <= registry[x[2]].tier
            /\ ~cfg.hierarchy.allow_same_tier_calls =>
                  registry[x[1]].tier < registry[x[2]].tier

\* An agent registered with tier 2 has spawned a child of a lower tier
\* under a config that forbids upward and same-tier calls.
C39_Witness ==
    /\ cfg.enabled
    /\ ~cfg.hierarchy.allow_upward_calls
    /\ ~cfg.hierarchy.allow_same_tier_calls
    /\ lastCmd.action = "spawn" /\ lastCmd.outcome = "ok"
    /\ \E x \in ParentedPairs :
          /\ registry[x[2]].tier = 2
          /\ registry[x[1]].tier < 2
          /\ lastCmd.new_thread = Some(x[1])

----------------------------------------------------------------------------
(* The tool handler again: what each mutation leaves alone *)

\* The component of the hub state the hub operation behind a tool action
\* works on.
ComponentOf(action) ==
    CASE action \in {"lounge_append", "lounge_clear"} -> "lounge"
      [] action \in {"vote_create", "vote_cast"} -> "votes"
      [] action \in {"timer_start", "timer_stop"} -> "timer"
      [] action \in {"leak_tracker_add", "leak_tracker_clear"} -> "leak_tracker"
      [] action = "task_add" -> "tasks"
      [] action = "evidence_add" -> "evidence"
      [] action = "decision_add" -> "decisions"
      [] action = "artifact_add" -> "artifacts"
      [] OTHER -> "none"

\* The four lists that are only appended to.
AppendOnly == {"tasks", "evidence", "decisions", "artifacts"}

\* new is old with nothing but the component changed.
OnlyChanged(old, new, component) ==
    \A f \in (DOMAIN old) \ {component} : new[f] = old[f]

\* list is a prefix of longer.
IsPrefix(list, longer) ==
    /\ Len(list) <= Len(longer)
    /\ \A i \in DOMAIN list : longer[i] = list[i]

\* C40: each hub mutation changes only its own component of the hub state:
\* lounge_append and lounge_clear only lounge, upsert_vote only votes,
\* set_timer only timer, leak_tracker_add and leak_tracker_clear only the
\* entries of leak_tracker, task_add, evidence_add, decision_add and
\* artifact_add only their own list, to which an accepted call appends
\* exactly the entry it returns, at the end; so tasks, evidence, decisions
\* and artifacts only grow, whatever tool actions are called.
C40_MutationFrames ==
    [][ LET a == lastOp'.name
            c == ComponentOf(a)
        IN  /\ c # "none" => OnlyChanged(hub, hub', c)
            /\ (c \in AppendOnly /\ lastOp'.ok) =>
                  hub'[c] = Append(hub[c], lastOp'.output[1])
            /\ \A l \in AppendOnly : IsPrefix(hub[l], hub'[l]) ]_vars

\* A second task has been added to a hub that holds lounge entries.
C40_Witness ==
    /\ lastOp.name = "task_add" /\ lastOp.ok
    /\ Len(hub.tasks) = 2
    /\ hub.lounge # <<>>

----------------------------------------------------------------------------
(* run_main: the task that attaches an event listener to every thread the  *)
(* ThreadManager announces on its thread-created broadcast (exec/src/lib.rs *)
(* 487-528).  The ThreadManager is not part of the sources: it creates      *)
(* threads, sends their ids on a bounded broadcast channel and may drop the *)
(* channel; get_thread may fail.                                           *)

\* Threads the ThreadManager creates after the primary thread.
MaxCreated == 4

\* Capacity of the broadcast channel.
ChannelCap == 2

\* The thread run_main starts with (primary_thread_id).
PrimaryThread == 1

\* broadcast::Sender::send as the receiver sees it: a value sent to a full
\* channel overwrites the oldest value the receiver has not read, and the
\* receiver counts it as missed.  dropped keeps the ids that were missed.
broadcast_send(rx, thread_id) ==
    IF Len(rx.queue) = ChannelCap
    THEN [rx EXCEPT !.queue = Append(Tail(@), thread_id),
                    !.lagged = @ + 1,
                    !.dropped = @ \cup {Head(rx.queue)}]
    ELSE [rx EXCEPT !.queue = Append(@, thread_id)]

\* broadcast::Receiver::recv: Err(Lagged(n)) once when values were missed,
\* the receiver then standing at the oldest value kept; else the next
\* value; Err(Closed) when the senders are gone and nothing is left; else
\* the receiver waits.
broadcast_recv(rx) ==
    IF rx.lagged > 0
    THEN [result |-> "lagged", value |-> 0, rx |-> [rx EXCEPT !.lagged = 0]]
    ELSE IF rx.queue # <<>>
    THEN [result |-> "ok", value |-> Head(rx.queue),
          rx |-> [rx EXCEPT !.queue = Tail(@)]]
    ELSE IF rx.closed
    THEN [result |-> "closed", value |-> 0, rx |-> rx]
    ELSE [result |-> "pending", value |-> 0, rx |-> rx]

\* A slip of the loop: a lagged receiver ends it.
after_recv_stops_on_lag(result) ==
    IF result \in {"closed", "lagged"} THEN "done" ELSE "recv"

\* Where the loop of the listener task stands after a receive (lines
\* 507-526): it breaks on Closed and goes round on Ok and on Lagged.
after_recv(result) == IF result = "closed" THEN "done" ELSE "recv"

\* The Ok arm (lines 509-521): nothing when the thread has a listener,
\* else get_thread and, when it returns the thread, the id is inserted and
\* a listener spawned.
attach(attached, thread_id, found) ==
    IF thread_id \in attached THEN attached
    ELSE IF found THEN attached \cup {thread_id}
    ELSE attached

\* run_main up to the spawn of the listener task: the primary thread has
\* its listener, the receiver is subscribed.
ListenerInit ==
    /\ cfg = SwarmConfig_default /\ probe = NoProbe
    /\ registry = EmptyMap /\ reg_home = Some(Home) /\ reg_storage_dir = None
    /\ hub = SwarmHubState_default /\ hub_home = Some(Home) /\ fs = EmptyFs
    /\ threads = {PrimaryThread} /\ watch = NoWatch /\ wait = NoWait
    /\ lock = NoLock /\ inflight = NoCalls
    /\ lastCmd = NoCmd /\ lastOp = NoOp /\ appended = <<>>
    /\ opCount = 0
    /\ thread_created_rx = [NoReceiver EXCEPT !.closed = FALSE]
    /\ attached_threads = {PrimaryThread}
    /\ listener = "recv"

ListenerFrame ==
    UNCHANGED <<cfg, probe, registry, reg_home, reg_storage_dir, hub,
                hub_home, fs, watch, wait, lastCmd, appended, opCount, lock,
                inflight>>

\* The ThreadManager creates a thread and announces it.
ThreadCreated ==
    /\ ~thread_created_rx.closed
    /\ Cardinality(threads) < 1 + MaxCreated
    /\ LET thread_id == Cardinality(threads) + 1
       IN  /\ threads' = threads \cup {thread_id}
           /\ thread_created_rx' = broadcast_send(thread_created_rx, thread_id)
    /\ UNCHANGED <<attached_threads, listener, lastOp>>
    /\ ListenerFrame

\* The ThreadManager is dropped: the channel has no sender left.
ManagerDropped ==
    /\ ~thread_created_rx.closed
    /\ thread_created_rx' = [thread_created_rx EXCEPT !.closed = TRUE]
    /\ UNCHANGED <<threads, attached_threads, listener, lastOp>>
    /\ ListenerFrame

\* One round of the loop of the listener task: recv and the arm it takes.
ListenerRecv ==
    LET r == broadcast_recv(thread_created_rx)
    IN  /\ listener = "recv"
        /\ r.result # "pending"
        /\ thread_created_rx' = r.rx
        /\ listener' = after_recv(r.result)
        /\ \E found \in IF r.result = "ok" /\ r.value \notin attached_threads
                        THEN BOOLEAN ELSE {TRUE} :
              /\ attached_threads' =
                    IF r.result = "ok"
                    THEN attach(attached_threads, r.value, found)
                    ELSE attached_threads
              /\ lastOp' = [name |-> "recv", result |-> r.result,
                            thread_id |-> r.value, found |-> found,
                            after_lag |-> /\ lastOp.name = "recv"
                                          /\ \/ lastOp.result = "lagged"
                                             \/ lastOp.after_lag]
        /\ UNCHANGED threads
        /\ ListenerFrame

ListenerNext == ThreadCreated \/ ManagerDropped \/ ListenerRecv

SpecListener == ListenerInit /\ [][ListenerNext]_vars

\* The listener task is a spawned tokio task: it runs whenever its recv has
\* something to return.
SpecListenerFair == SpecListener /\ WF_vars(ListenerRecv)

\* The step is a round of the listener loop.
ListenerStep ==
    /\ listener = "recv"
    /\ broadcast_recv(thread_created_rx).result # "pending"
    /\ thread_created_rx' = broadcast_recv(thread_created_rx).rx
    /\ threads' = threads
    /\ (thread_created_rx' # thread_created_rx \/ listener' # listener)

C34_MissedThreadsAttached ==
    \A t \in 2 .. (1 + MaxCreated) :
        (t \in thread_created_rx.dropped) ~> (t \in attached_threads)

----------------------------------------------------------------------------
(* The wait command again: when it reports a timeout *)

\* C32: wait reports timed_out = true only when the deadline has passed
\* with no requested id seen final; it never reports a timeout before the
\* deadline, in particular not when a status watch ends while its agent is
\* still PendingInit or Running.
C32_TimeoutOnlyAtDeadline ==
    (wait.pc = "done" /\ wait.outcome = "ok" /\ wait.timed_out) =>
        wait.cause = "deadline"

====
